---- MODULE Spec2Model ----
(***************************************************************************)
(* Declaration registry and alias resolution engine of                    *)
(* eslint-plugin-titanpl, with the two drift rules that consume it.       *)
(*                                                                         *)
(* Dotted names ('t.core.fs.readFile', 'db.query') are sequences of       *)
(* segments, so `a + '.' + b` is concatenation and split('.') is the      *)
(* sequence itself.  Return types are sequences of tokens.  A declaration *)
(* document is the sequence of its top-level blocks, a namespace body the *)
(* sequence of its items in text order; the regular expressions of the    *)
(* parser are modelled by what they match on such text.                   *)
(***************************************************************************)
EXTENDS Integers, Sequences, FiniteSets, TLC

VARIABLES fs, dtsCache, cache, last, roots, scanLog, steps, inCall

vars == <<fs, dtsCache, cache, last, roots, scanLog, steps, inCall>>

-----------------------------------------------------------------------------
(* Generic helpers: JavaScript Map as a TLA+ function.                     *)

EmptyMap == [k \in {} |-> {}]

MapSet(m, k, v) == (k :> v) @@ m

MapHas(m, k) == k \in DOMAIN m

\* No value is ever pending.  A loop asks this of the collection it was
\* handed before its next round, which makes TLC compute that collection
\* at this point, as the statements of the source run one after another,
\* and not at the collection's first use after the last round.
Pending(value) == value # value

StartsWith(p, q) == Len(p) >= Len(q) /\ SubSeq(p, 1, Len(q)) = q

Null == <<>>

-----------------------------------------------------------------------------
(* Paths and return types.                                                 *)

\* A looser test that takes every dotted name for a Titan path.
AnyDottedCallee(calleePath) == Len(calleePath) >= 2

isTitanCallee(calleePath) ==
    Len(calleePath) >= 2 /\ calleePath[1] \in {"t", "Titan"}

\* A looser test that takes every dotted name for a Titan path.
AnyDottedPath(path) == Len(path) >= 2

isTitanPath(path) ==
    Len(path) >= 2 /\ path[1] \in {"t", "Titan"}

\* trimmed.startsWith('Promise<') || trimmed.startsWith('Promise <')
isAsyncReturnType(returnType) ==
    Len(returnType) >= 2 /\ returnType[1] = "Promise" /\ returnType[2] = "<"

\* Index of the last '>' token of a type, 0 when there is none.
LastClose(rt) ==
    LET S == {i \in 1..Len(rt) : rt[i] = ">"}
    IN  IF S = {} THEN 0 ELSE CHOOSE i \in S : \A j \in S : j <= i

\* asyncMethodRegex: ... : \s*(Promise\s*<[^;]+>)
AsyncRegexMatches(rt) ==
    Len(rt) >= 4 /\ rt[1] = "Promise" /\ rt[2] = "<" /\ LastClose(rt) >= 4

AsyncRegexType(rt) == SubSeq(rt, 1, LastClose(rt))

Punctuation == {"{", "}", "(", ")", "[", "]", "<", ">", ":", "|", "=>"}

\* \w+ at the start of a type
IsWord(tok) == tok \notin Punctuation

\* syncMethodRegex: ... : \s*(?!Promise\s*<)(\w+(?:<[^;]+>)?)
SyncRegexMatches(rt) ==
    /\ Len(rt) >= 1
    /\ IsWord(rt[1])
    /\ ~(Len(rt) >= 2 /\ rt[1] = "Promise" /\ rt[2] = "<")

SyncRegexType(rt) ==
    IF Len(rt) >= 3 /\ rt[2] = "<" /\ LastClose(rt) >= 4
    THEN SubSeq(rt, 1, LastClose(rt))
    ELSE <<rt[1]>>

-----------------------------------------------------------------------------
(* DTS parsing - namespaces.                                               *)
(* A namespace body is a sequence of items in text order:                 *)
(*   [kind |-> "func", name, ret]  a callable signature                   *)
(*   [kind |-> "ns", name, body]   a nested namespace block               *)

Max(a, b) == IF a >= b THEN a ELSE b

\* Depth of '{' nesting inside a piece of text.
RECURSIVE BraceDepth(_)
BraceDepth(items) ==
    IF items = <<>> THEN 0
    ELSE LET h == Head(items)
             d == IF h.kind = "ns" THEN 1 + BraceDepth(h.body)
                  ELSE IF \E i \in 1..Len(h.ret) : h.ret[i] = "{" THEN 1
                  ELSE 0
         IN  Max(d, BraceDepth(Tail(items)))

\* Every callable signature in the text of a body, nested blocks included,
\* in text order: what a /g regular expression over the content meets.
RECURSIVE SignaturesIn(_)
SignaturesIn(items) ==
    IF items = <<>> THEN <<>>
    ELSE LET h == Head(items)
         IN  (IF h.kind = "func" THEN <<h>> ELSE SignaturesIn(h.body))
             \o SignaturesIn(Tail(items))

\* while ((match = asyncMethodRegex.exec(content)) !== null) { methods.set }
RECURSIVE AsyncPass(_, _, _)
AsyncPass(methods, sigs, prefix) ==
    IF sigs = <<>> \/ Pending(methods) THEN methods
    ELSE LET f == Head(sigs)
             m == IF AsyncRegexMatches(f.ret)
                  THEN MapSet(methods, prefix \o <<f.name>>,
                              [isAsync |-> TRUE,
                               returnType |-> AsyncRegexType(f.ret)])
                  ELSE methods
         IN  AsyncPass(m, Tail(sigs), prefix)

\* if (!dtsCache.methods.has(fullPath)) methods.set(fullPath, sync)
SyncPassKeepAsync(methods, fullPath, info) ==
    IF MapHas(methods, fullPath) THEN methods
    ELSE MapSet(methods, fullPath, info)

RECURSIVE SyncPass(_, _, _)
SyncPass(methods, sigs, prefix) ==
    IF sigs = <<>> \/ Pending(methods) THEN methods
    ELSE LET f == Head(sigs)
             m == IF SyncRegexMatches(f.ret)
                  THEN SyncPassKeepAsync(methods, prefix \o <<f.name>>,
                           [isAsync |-> FALSE,
                            returnType |-> SyncRegexType(f.ret)])
                  ELSE methods
         IN  SyncPass(m, Tail(sigs), prefix)

\* The text the two method regular expressions of parseNamespaceContent
\* run over: the whole content handed in.
MethodRegexScope(items) == SignaturesIn(items)

RECURSIVE parseNamespaceContent(_, _, _), NestedPass(_, _, _)
parseNamespaceContent(methods, content, prefix) ==
    LET m1 == AsyncPass(methods, MethodRegexScope(content), prefix)
        m2 == SyncPass(m1, MethodRegexScope(content), prefix)
    IN  NestedPass(m2, content, prefix)

\* nestedNamespaceRegex: the direct child blocks, each consumed whole.
NestedPass(methods, items, prefix) ==
    IF items = <<>> \/ Pending(methods) THEN methods
    ELSE LET h == Head(items)
             m == IF h.kind = "ns" /\ BraceDepth(h.body) <= 1
                  THEN parseNamespaceContent(methods, h.body,
                                             prefix \o <<h.name>>)
                  ELSE methods
         IN  NestedPass(m, Tail(items), prefix)

-----------------------------------------------------------------------------
(* DTS parsing - interfaces.                                               *)
(* An interface body is a sequence of members in text order:              *)
(*   [kind |-> "method", name, ret]   name(params): ret;                  *)
(*   [kind |-> "prop", name, type]    name: Type.Name;                    *)

\* methodRegex loop: every signature sets its entry, the last one stays.
RECURSIVE InterfaceMethodPass(_, _)
InterfaceMethodPass(methods, members) ==
    IF members = <<>> \/ Pending(methods) THEN methods
    ELSE LET h == Head(members)
             m == IF h.kind = "method"
                  THEN MapSet(methods, h.name,
                              [isAsync |-> isAsyncReturnType(h.ret),
                               returnType |-> h.ret,
                               isMethod |-> TRUE,
                               isReference |-> FALSE,
                               referencedType |-> Null])
                  ELSE methods
         IN  InterfaceMethodPass(m, Tail(members))

\* propertyRegex loop: if (methods.has(propName)) continue;
RECURSIVE InterfacePropertyPass(_, _)
InterfacePropertyPass(methods, members) ==
    IF members = <<>> \/ Pending(methods) THEN methods
    ELSE LET h == Head(members)
             m == IF h.kind = "prop" /\ ~MapHas(methods, h.name)
                  THEN MapSet(methods, h.name,
                              [isAsync |-> FALSE,
                               returnType |-> h.type,
                               isMethod |-> FALSE,
                               isReference |-> TRUE,
                               referencedType |-> h.type])
                  ELSE methods
         IN  InterfacePropertyPass(m, Tail(members))

\* The member map parseInterfaceMethods builds for one interface body.
InterfaceMembers(content) ==
    InterfacePropertyPass(InterfaceMethodPass(EmptyMap, content), content)

parseInterfaceMethods(interfaces, interfaceName, content) ==
    MapSet(interfaces, interfaceName, InterfaceMembers(content))

\* parseNamespace: interface Name { ... } inside namespace N is 'N.Name'.
RECURSIVE parseNamespace(_, _, _)
parseNamespace(interfaces, decls, namespaceName) ==
    IF decls = <<>> \/ Pending(interfaces) THEN interfaces
    ELSE LET h == Head(decls)
         IN  parseNamespace(
                 parseInterfaceMethods(interfaces,
                                       <<namespaceName, h.name>>, h.members),
                 Tail(decls), namespaceName)

\* dtsCache.methods.set(fullPath, { isAsync, returnType }) of the two
\* interface resolvers.
InterfaceMethodSet(methods, fullPath, info) ==
    MapSet(methods, fullPath,
           [isAsync |-> info.isAsync, returnType |-> info.returnType])

\* for (const [methodName, info] of interfaceMethods.entries()) over the
\* names not yet visited; distinct names give distinct paths, so the
\* order of the entries does not change the result.
RECURSIVE ResolveMembers(_, _, _, _, _)
ResolveMembers(methods, interfaces, basePath, members, names) ==
    IF names = {} \/ Pending(methods) THEN methods
    ELSE LET n == CHOOSE x \in names : TRUE
             info == members[n]
             fullPath == basePath \o <<n>>
             m == IF info.isReference /\ info.referencedType # Null
                  THEN (IF MapHas(interfaces, info.referencedType)
                        THEN ResolveMembers(methods, interfaces, fullPath,
                                 interfaces[info.referencedType],
                                 DOMAIN interfaces[info.referencedType])
                        ELSE methods)
                  ELSE IF info.isMethod
                  THEN InterfaceMethodSet(methods, fullPath, info)
                  ELSE methods
         IN  ResolveMembers(m, interfaces, basePath, members, names \ {n})

resolveNestedInterface(methods, interfaces, basePath, typeName) ==
    IF MapHas(interfaces, typeName)
    THEN ResolveMembers(methods, interfaces, basePath, interfaces[typeName],
                        DOMAIN interfaces[typeName])
    ELSE methods

resolveTitanInterface(methods, interfaces, prefix, members) ==
    ResolveMembers(methods, interfaces, prefix, members, DOMAIN members)

-----------------------------------------------------------------------------
(* DTS parsing - declare global.                                           *)
(* A global block: [kind |-> "global",                                    *)
(*    consts     : <<[varName, typeName]>>     const t: TypeName          *)
(*    interfaces : <<[name, members]>>         interface Name { ... }     *)
(*    typeofs    : <<[aliasName, path]>>]      const a: typeof t.x.y      *)

RECURSIVE GlobalInterfacePass(_, _)
GlobalInterfacePass(interfaces, decls) ==
    IF decls = <<>> \/ Pending(interfaces) THEN interfaces
    ELSE GlobalInterfacePass(
             parseInterfaceMethods(interfaces, <<Head(decls).name>>,
                                   Head(decls).members),
             Tail(decls))

RECURSIVE TypeofPass(_, _)
TypeofPass(aliases, typeofs) ==
    IF typeofs = <<>> \/ Pending(aliases) THEN aliases
    ELSE LET h == Head(typeofs)
         IN  TypeofPass(
                 MapSet(aliases, <<h.aliasName>>,
                        [originalPath |-> h.path,
                         source |-> "declare-global",
                         isModule |-> FALSE]),
                 Tail(typeofs))

\* constRegex captures (\w+) after the colon: the first segment of the type.
RECURSIVE TitanTypesPass(_, _, _)
TitanTypesPass(methods, interfaces, titanTypes) ==
    IF titanTypes = <<>> \/ Pending(methods) THEN methods
    ELSE LET h == Head(titanTypes)
             typeName == <<h.typeName[1]>>
             m == IF h.varName \in {"t", "Titan"}
                     /\ MapHas(interfaces, typeName)
                  THEN resolveTitanInterface(methods, interfaces,
                                             <<h.varName>>,
                                             interfaces[typeName])
                  ELSE methods
         IN  TitanTypesPass(m, interfaces, Tail(titanTypes))

parseDeclareGlobal(dc, content) ==
    LET ifs == GlobalInterfacePass(dc.interfaces, content.interfaces)
        als == TypeofPass(dc.aliases, content.typeofs)
        ms  == TitanTypesPass(dc.methods, ifs, content.consts)
    IN  [dc EXCEPT !.interfaces = ifs, !.aliases = als, !.methods = ms]

-----------------------------------------------------------------------------
(* DTS file parsing.                                                       *)
(* A declaration document: [readable, blocks], blocks in text order:      *)
(*   [kind |-> "namespace", name, declared, body, interfaces]             *)
(*   [kind |-> "global", consts, interfaces, typeofs]                     *)

\* 1. namespaceRegex: every  namespace N { ... }  whose content nests
\*    braces at most two deep.
RECURSIVE NamespaceStep(_, _)
NamespaceStep(dc, blocks) ==
    IF blocks = <<>> \/ Pending(dc) THEN dc
    ELSE LET h == Head(blocks)
             d == IF h.kind = "namespace" /\ BraceDepth(h.body) <= 2
                  THEN (IF h.name \in {"t", "Titan"}
                        THEN [dc EXCEPT !.methods =
                                 parseNamespaceContent(dc.methods, h.body,
                                                       <<h.name>>)]
                        ELSE [dc EXCEPT !.interfaces =
                                 parseNamespace(dc.interfaces, h.interfaces,
                                                h.name)])
                  ELSE dc
         IN  NamespaceStep(d, Tail(blocks))

\* 2. declareGlobalRegex
RECURSIVE DeclareGlobalStep(_, _)
DeclareGlobalStep(dc, blocks) ==
    IF blocks = <<>> \/ Pending(dc) THEN dc
    ELSE LET h == Head(blocks)
             d == IF h.kind = "global" THEN parseDeclareGlobal(dc, h)
                  ELSE dc
         IN  DeclareGlobalStep(d, Tail(blocks))

\* 3. titanNamespaceRegex:  declare namespace (t|Titan) { ... }
RECURSIVE TitanNamespaceStep(_, _)
TitanNamespaceStep(dc, blocks) ==
    IF blocks = <<>> \/ Pending(dc) THEN dc
    ELSE LET h == Head(blocks)
             d == IF h.kind = "namespace" /\ h.declared
                     /\ h.name \in {"t", "Titan"} /\ BraceDepth(h.body) <= 2
                  THEN [dc EXCEPT !.methods =
                           parseNamespaceContent(dc.methods, h.body,
                                                 <<h.name>>)]
                  ELSE dc
         IN  TitanNamespaceStep(d, Tail(blocks))

\* try { readFileSync ... } catch { }
parseDtsFile(dc, file) ==
    IF ~file.readable THEN dc
    ELSE TitanNamespaceStep(
             DeclareGlobalStep(NamespaceStep(dc, file.blocks), file.blocks),
             file.blocks)

-----------------------------------------------------------------------------
(* Source file parsing - all alias patterns.                               *)
(* A source text is a sequence of statements in text order:               *)
(*   [kind |-> "destructure", props |-> <<[name, alias]>>, base]          *)
(*        const { name: alias, ... } = base;                              *)
(*        a prop [name, inner |-> <<props>>] is a nested pattern:         *)
(*        const { name: { ... } } = base;                                 *)
(*   [kind |-> "assign", aliasName, path, exported]                       *)
(*        [export] const aliasName = path;                                *)
(*   [kind |-> "object", objectName, props |-> <<[propName, path]>>]      *)
(*        [export] const objectName = { propName: path, ... };            *)

\* for (const methodPath of methods.keys())
\*     if (methodPath.startsWith(path + '.')) return true;
hasSubMethods(methods, path) ==
    \E methodPath \in DOMAIN methods :
        Len(methodPath) > Len(path) /\ StartsWith(methodPath, path)

\* content.includes('t.') || includes('Titan.') || includes('= t') || '=t'
StatementMentionsTitan(st) ==
    CASE st.kind = "destructure" -> st.base # <<"Titan">>
      [] st.kind = "assign" -> isTitanPath(st.path)
      [] st.kind = "object" ->
            \E i \in 1..Len(st.props) : isTitanPath(st.props[i].path)
      [] OTHER -> FALSE

ContentMentionsTitan(content) ==
    \E i \in 1..Len(content) : StatementMentionsTitan(content[i])

RECURSIVE DestructuredProps(_, _, _, _)
DestructuredProps(aliases, methods, props, prefix) ==
    IF props = <<>> \/ Pending(aliases) THEN aliases
    ELSE LET h == Head(props)
             originalPath == prefix \o <<h.name>>
         IN  DestructuredProps(
                 MapSet(aliases, <<h.alias>>,
                        [originalPath |-> originalPath,
                         source |-> "destructuring",
                         isModule |-> hasSubMethods(methods, originalPath)]),
                 methods, Tail(props), prefix)

\* \{([^}]+)\}\s*=  : the braces of the pattern hold no `}`, so the first
\* `}` of the statement is followed by `=`; a pattern with a nested
\* pattern has its first `}` followed by `}` or `,`.
FlatPattern(props) ==
    \A i \in 1..Len(props) : "inner" \notin DOMAIN props[i]

\* 1. destructuringRegex
RECURSIVE DestructuringPass(_, _, _)
DestructuringPass(aliases, methods, content) ==
    IF content = <<>> \/ Pending(aliases) THEN aliases
    ELSE LET h == Head(content)
             a == IF h.kind = "destructure" /\ FlatPattern(h.props)
                     /\ h.base[1] \in {"t", "Titan"}
                  THEN DestructuredProps(aliases, methods, h.props, h.base)
                  ELSE aliases
         IN  DestructuringPass(a, methods, Tail(content))

\* 2. simpleAssignmentRegex (also matches inside an export statement)
RECURSIVE SimpleAssignmentPass(_, _, _)
SimpleAssignmentPass(aliases, methods, content) ==
    IF content = <<>> \/ Pending(aliases) THEN aliases
    ELSE LET h == Head(content)
             a == IF h.kind = "assign" /\ isTitanPath(h.path)
                  THEN MapSet(aliases, <<h.aliasName>>,
                              [originalPath |-> h.path,
                               source |-> "assignment",
                               isModule |-> hasSubMethods(methods, h.path)])
                  ELSE aliases
         IN  SimpleAssignmentPass(a, methods, Tail(content))

\* 3. exportAssignmentRegex
RECURSIVE ExportAssignmentPass(_, _, _)
ExportAssignmentPass(aliases, methods, content) ==
    IF content = <<>> \/ Pending(aliases) THEN aliases
    ELSE LET h == Head(content)
             a == IF h.kind = "assign" /\ h.exported /\ isTitanPath(h.path)
                  THEN MapSet(aliases, <<h.aliasName>>,
                              [originalPath |-> h.path,
                               source |-> "export",
                               isModule |-> hasSubMethods(methods, h.path)])
                  ELSE aliases
         IN  ExportAssignmentPass(a, methods, Tail(content))

\* propRegex inside one object literal:  objectName.propName -> originalPath
RECURSIVE ObjectProps(_, _, _)
ObjectProps(aliases, objectName, props) ==
    IF props = <<>> \/ Pending(aliases) THEN aliases
    ELSE LET h == Head(props)
             a == IF isTitanPath(h.path)
                  THEN MapSet(aliases, <<objectName, h.propName>>,
                              [originalPath |-> h.path,
                               source |-> "object-property",
                               isModule |-> FALSE])
                  ELSE aliases
         IN  ObjectProps(a, objectName, Tail(props))

\* 4. objectAssignmentRegex
RECURSIVE ObjectAssignmentPass(_, _)
ObjectAssignmentPass(aliases, content) ==
    IF content = <<>> \/ Pending(aliases) THEN aliases
    ELSE LET h == Head(content)
             a == IF h.kind = "object"
                  THEN ObjectProps(aliases, h.objectName, h.props)
                  ELSE aliases
         IN  ObjectAssignmentPass(a, Tail(content))

parseSourceFileAliases(dc, content) ==
    IF ~ContentMentionsTitan(content) THEN dc
    ELSE LET a1 == DestructuringPass(dc.aliases, dc.methods, content)
             a2 == SimpleAssignmentPass(a1, dc.methods, content)
             a3 == ExportAssignmentPass(a2, dc.methods, content)
             a4 == ObjectAssignmentPass(a3, content)
         IN  [dc EXCEPT !.aliases = a4]

\* try { readFileSync ... } catch { }
parseSourceFile(dc, file) ==
    IF ~file.readable THEN dc ELSE parseSourceFileAliases(dc, file.content)

-----------------------------------------------------------------------------
(* Directory scanning and cache initialization.                            *)
(* fs.projects[root] = [nodeModules, dts, sources]: the package entry     *)
(* points scanNodeModules parses, the project's .d.ts files and its       *)
(* source files, each in the order the directory listing yields them.     *)

\* A pass over the listing that gives up at the first file it cannot read.
RECURSIVE ParseDtsFilesUntilFailure(_, _)
ParseDtsFilesUntilFailure(dc, files) ==
    IF files = <<>> \/ Pending(dc) THEN dc
    ELSE IF ~Head(files).readable THEN dc
    ELSE ParseDtsFilesUntilFailure(parseDtsFile(dc, Head(files)),
                                   Tail(files))

RECURSIVE ParseDtsFiles(_, _)
ParseDtsFiles(dc, files) ==
    IF files = <<>> \/ Pending(dc) THEN dc
    ELSE ParseDtsFiles(parseDtsFile(dc, Head(files)), Tail(files))

RECURSIVE ParseSourceFiles(_, _)
ParseSourceFiles(dc, files) ==
    IF files = <<>> \/ Pending(dc) THEN dc
    ELSE ParseSourceFiles(parseSourceFile(dc, Head(files)), Tail(files))

scanNodeModules(dc, project) == ParseDtsFiles(dc, project.nodeModules)

\* A scan that reads the source files before the declaration documents.
scanDirectorySourcesFirst(dc, project) ==
    ParseDtsFiles(ParseSourceFiles(dc, project.sources), project.dts)

\* scanDirectoryPass(dirPath, 'dts') then scanDirectoryPass(dirPath, 'source')
scanDirectory(dc, project) ==
    ParseSourceFiles(ParseDtsFiles(dc, project.dts), project.sources)

NoRoot == <<"null">>

NoFile == <<"null">>

EmptyDtsCache ==
    [methods |-> EmptyMap, aliases |-> EmptyMap, interfaces |-> EmptyMap,
     initialized |-> FALSE, projectRoot |-> NoRoot, lastParsedFile |-> NoFile]

\* A scan that runs whether or not the root is the one already loaded.
initializeCacheUnguarded(dc, files, projectRoot) ==
    LET cleared == [dc EXCEPT !.methods = EmptyMap,
                              !.aliases = EmptyMap,
                              !.interfaces = EmptyMap,
                              !.projectRoot = projectRoot]
    IN  [scanDirectory(
             scanNodeModules(cleared, files.projects[projectRoot]),
             files.projects[projectRoot])
         EXCEPT !.initialized = TRUE]

initializeCache(dc, files, projectRoot) ==
    IF dc.initialized /\ dc.projectRoot = projectRoot THEN dc
    ELSE LET cleared == [dc EXCEPT !.methods = EmptyMap,
                                   !.aliases = EmptyMap,
                                   !.interfaces = EmptyMap,
                                   !.projectRoot = projectRoot]
         IN  [scanDirectory(
                  scanNodeModules(cleared, files.projects[projectRoot]),
                  files.projects[projectRoot])
              EXCEPT !.initialized = TRUE]

\* dirname(filename)
dirname(path) == SubSeq(path, 1, Len(path) - 1)

\* while (currentPath !== root) { if (existsSync(package.json)) return ... }
RECURSIVE findProjectRoot(_, _)
findProjectRoot(files, startPath) ==
    IF startPath = <<>> THEN NoRoot
    ELSE IF startPath \in files.packageJson THEN startPath
    ELSE findProjectRoot(files, dirname(startPath))

-----------------------------------------------------------------------------
(* Alias resolution (dts-file-checker.js).                                 *)
(* A lint context: [filename, text]; text is the source text of the file  *)
(* being linted, Null when the context offers none.                       *)

NoInfo == [isAsync |-> FALSE, returnType |-> Null, found |-> FALSE]

Info(methods, path) ==
    IF MapHas(methods, path)
    THEN [isAsync |-> methods[path].isAsync,
          returnType |-> methods[path].returnType, found |-> TRUE]
    ELSE NoInfo

\* resolveMethodPath(path) of dts-file-checker.js
cacheResolveMethodPath(dc, path) ==
    IF MapHas(dc.methods, path)
    THEN [resolvedPath |-> path, methodInfo |-> Info(dc.methods, path)]
    ELSE IF MapHas(dc.aliases, path)
    THEN [resolvedPath |-> dc.aliases[path].originalPath,
          methodInfo |-> Info(dc.methods, dc.aliases[path].originalPath)]
    ELSE IF Len(path) >= 2 /\ MapHas(dc.aliases, <<path[1]>>)
            /\ dc.aliases[<<path[1]>>].isModule
    THEN LET fullPath == dc.aliases[<<path[1]>>].originalPath \o Tail(path)
         IN  [resolvedPath |-> fullPath,
              methodInfo |-> Info(dc.methods, fullPath)]
    ELSE [resolvedPath |-> path, methodInfo |-> NoInfo]

\* A parse of the linted text into an alias table emptied first.
parseCurrentFileSourceAlone(dc, context) ==
    IF dc.lastParsedFile = context.filename THEN dc
    ELSE IF context.text = Null THEN dc
    ELSE [parseSourceFileAliases([dc EXCEPT !.aliases = EmptyMap],
                                 context.text)
             EXCEPT !.lastParsedFile = context.filename]

parseCurrentFileSource(dc, context) ==
    IF dc.lastParsedFile = context.filename THEN dc
    ELSE IF context.text = Null THEN dc
    ELSE [parseSourceFileAliases(dc, context.text)
             EXCEPT !.lastParsedFile = context.filename]

NULL_RESULT == [isAsync |-> FALSE, source |-> "null", returnType |-> Null]

checkWithDtsFile(dc, files, methodPath, context) ==
    LET Found(d, r) ==
            IF r.methodInfo.found
            THEN [res |-> [isAsync |-> r.methodInfo.isAsync,
                           source |-> "dts-file",
                           returnType |-> r.methodInfo.returnType],
                  dc |-> d]
            ELSE [res |-> NULL_RESULT, dc |-> d]
        Initialized(d) == Found(d, cacheResolveMethodPath(d, methodPath))
        Rooted(projectRoot) ==
            IF projectRoot = NoRoot THEN [res |-> NULL_RESULT, dc |-> dc]
            ELSE Initialized(initializeCache(dc, files, projectRoot))
    IN  Rooted(findProjectRoot(files, dirname(context.filename)))

NotAlias ==
    [isAlias |-> FALSE, originalPath |-> Null, source |-> "null",
     isModule |-> FALSE]

\* A lookup that splits the name on a module alias before it looks the
\* whole name up.
checkForAliasSplitFirst(dc, files, name, context) ==
    LET Lookup(d) ==
            IF Len(name) >= 2 /\ MapHas(d.aliases, <<name[1]>>)
                    /\ d.aliases[<<name[1]>>].isModule
            THEN [res |-> [isAlias |-> TRUE,
                           originalPath |->
                               d.aliases[<<name[1]>>].originalPath
                                   \o Tail(name),
                           source |-> d.aliases[<<name[1]>>].source,
                           isModule |-> TRUE],
                  dc |-> d]
            ELSE IF MapHas(d.aliases, name)
            THEN [res |-> [isAlias |-> TRUE,
                           originalPath |-> d.aliases[name].originalPath,
                           source |-> d.aliases[name].source,
                           isModule |-> d.aliases[name].isModule],
                  dc |-> d]
            ELSE [res |-> NotAlias, dc |-> d]
        Rooted(projectRoot) ==
            IF projectRoot = NoRoot THEN [res |-> NotAlias, dc |-> dc]
            ELSE Lookup(parseCurrentFileSource(
                            initializeCache(dc, files, projectRoot), context))
    IN  Rooted(findProjectRoot(files, dirname(context.filename)))

\* The isModule flag checkForAlias reports for an exact alias entry.
AliasEntryIsModule(alias) == alias.isModule

checkForAlias(dc, files, name, context) ==
    LET Lookup(d) ==
            IF MapHas(d.aliases, name)
            THEN [res |-> [isAlias |-> TRUE,
                           originalPath |-> d.aliases[name].originalPath,
                           source |-> d.aliases[name].source,
                           isModule |-> AliasEntryIsModule(d.aliases[name])],
                  dc |-> d]
            ELSE IF Len(name) >= 2 /\ MapHas(d.aliases, <<name[1]>>)
                    /\ d.aliases[<<name[1]>>].isModule
            THEN [res |-> [isAlias |-> TRUE,
                           originalPath |->
                               d.aliases[<<name[1]>>].originalPath
                                   \o Tail(name),
                           source |-> d.aliases[<<name[1]>>].source,
                           isModule |-> TRUE],
                  dc |-> d]
            ELSE [res |-> NotAlias, dc |-> d]
        Rooted(projectRoot) ==
            IF projectRoot = NoRoot THEN [res |-> NotAlias, dc |-> dc]
            ELSE Lookup(parseCurrentFileSource(
                            initializeCache(dc, files, projectRoot), context))
    IN  Rooted(findProjectRoot(files, dirname(context.filename)))

\* isModule: methodInfo === undefined && hasSubMethods(resolvedPath)
ResolvedIsModule(dc, r) ==
    ~r.methodInfo.found /\ hasSubMethods(dc.methods, r.resolvedPath)

resolveAlias(dc, files, methodPath, context) ==
    LET unchanged == [resolvedPath |-> methodPath, wasAlias |-> FALSE,
                      isModule |-> FALSE]
        Resolved(d, r) ==
            IF isTitanPath(methodPath)
            THEN [res |-> unchanged, dc |-> d]
            ELSE IF r.resolvedPath # methodPath
                    /\ isTitanPath(r.resolvedPath)
            THEN [res |-> [resolvedPath |-> r.resolvedPath,
                           wasAlias |-> TRUE,
                           isModule |-> ResolvedIsModule(d, r)],
                  dc |-> d]
            ELSE [res |-> unchanged, dc |-> d]
        Parsed(d) == Resolved(d, cacheResolveMethodPath(d, methodPath))
        Rooted(projectRoot) ==
            IF projectRoot = NoRoot THEN [res |-> unchanged, dc |-> dc]
            ELSE Parsed(parseCurrentFileSource(
                            initializeCache(dc, files, projectRoot), context))
    IN  Rooted(findProjectRoot(files, dirname(context.filename)))

-----------------------------------------------------------------------------
(* Async method detector (index.js).  `memo` is the AsyncMethodCache.      *)

\* A resolver that looks no name up in the alias table.
resolveMethodPathAsIs(dc, files, methodName, context) ==
    [res |-> [resolvedPath |-> methodName, wasAlias |-> FALSE,
              aliasSource |-> "null"],
     dc |-> dc]

resolveMethodPath(dc, files, methodName, context) ==
    LET AliasInfo(a) ==
            IF a.res.isAlias /\ a.res.originalPath # Null
            THEN [res |-> [resolvedPath |-> a.res.originalPath,
                           wasAlias |-> TRUE,
                           aliasSource |-> a.res.source],
                  dc |-> a.dc]
            ELSE [res |-> [resolvedPath |-> methodName, wasAlias |-> FALSE,
                           aliasSource |-> "null"],
                  dc |-> a.dc]
    IN  IF isTitanCallee(methodName)
        THEN [res |-> [resolvedPath |-> methodName, wasAlias |-> FALSE,
                       aliasSource |-> "null"],
              dc |-> dc]
        ELSE AliasInfo(checkForAlias(dc, files, methodName, context))

NoneResult == [isAsync |-> FALSE, source |-> "null", returnType |-> Null]

FallbackResult == [isAsync |-> FALSE, source |-> "fallback", returnType |-> Null]

\* cache.set(pathToCheck, result);
\* if (wasAlias && methodPath !== pathToCheck) cache.set(methodPath, result)
Memoize(memo, methodPath, r, result) ==
    LET m == MapSet(memo, r.resolvedPath, result)
    IN  IF r.wasAlias /\ methodPath # r.resolvedPath
        THEN MapSet(m, methodPath, result)
        ELSE m

\* const cached = cache.get(pathToCheck)
MemoGet(memo, pathToCheck) ==
    IF MapHas(memo, pathToCheck)
    THEN [hit |-> TRUE, value |-> memo[pathToCheck]]
    ELSE [hit |-> FALSE, value |-> NoneResult]

detectAsyncMethod(dc, memo, files, methodPath, context) ==
    LET Store(r, c, result) ==
            [res |-> result, dc |-> c.dc,
             memo |-> Memoize(memo, methodPath, r.res, result)]
        Checked(r, c) ==
            Store(r, c, IF c.res.source # "null" THEN c.res
                        ELSE FallbackResult)
        Resolved(r) ==
            IF ~isTitanCallee(r.res.resolvedPath)
            THEN [res |-> NoneResult, dc |-> r.dc, memo |-> memo]
            ELSE IF MemoGet(memo, r.res.resolvedPath).hit
            THEN [res |-> MemoGet(memo, r.res.resolvedPath).value,
                  dc |-> r.dc, memo |-> memo]
            ELSE Checked(r, checkWithDtsFile(r.dc, files,
                                             r.res.resolvedPath, context))
    IN  Resolved(resolveMethodPath(dc, files, methodPath, context))

isAsyncMethod(dc, memo, files, methodPath, context) ==
    LET Result(d) ==
            [res |-> d.res.isAsync = TRUE, dc |-> d.dc, memo |-> d.memo]
    IN  Result(detectAsyncMethod(dc, memo, files, methodPath, context))

isTitanAlias(dc, files, name, context) ==
    checkForAlias(dc, files, name, context)

checkTitanCallee(dc, files, calleePath, context) ==
    LET Resolved(r) ==
            IF r.res.wasAlias /\ isTitanCallee(r.res.resolvedPath)
            THEN [res |-> [isTitan |-> TRUE,
                           resolvedPath |-> r.res.resolvedPath],
                  dc |-> r.dc]
            ELSE [res |-> [isTitan |-> FALSE, resolvedPath |-> Null],
                  dc |-> r.dc]
    IN  IF isTitanCallee(calleePath)
        THEN [res |-> [isTitan |-> TRUE, resolvedPath |-> calleePath],
              dc |-> dc]
        ELSE Resolved(resolveMethodPath(dc, files, calleePath, context))

\* clearDtsCache()
\* A reset that empties the three tables and keeps the flags.
clearTablesOnly ==
    [dtsCache EXCEPT !.methods = EmptyMap, !.aliases = EmptyMap,
                     !.interfaces = EmptyMap]

clearDtsCache == EmptyDtsCache

-----------------------------------------------------------------------------
(* AST helpers (ast-helpers.js).  Nodes are records:                       *)
(*   [type |-> "Identifier", name]                                        *)
(*   [type |-> "Literal", value]          value: the segments of String() *)
(*   [type |-> "MemberExpression", object, property, computed]            *)
(*   [type |-> "CallExpression", callee, arguments]                       *)
(*   [type |-> "ArrowFunctionExpression"]                                 *)

getPropertyName(memberExpr) ==
    IF memberExpr.type # "MemberExpression" THEN Null
    ELSE IF memberExpr.computed
    THEN (IF memberExpr.property.type = "Literal"
          THEN memberExpr.property.value ELSE Null)
    ELSE (IF memberExpr.property.type = "Identifier"
          THEN <<memberExpr.property.name>> ELSE Null)

RECURSIVE buildMemberPath(_)
buildMemberPath(node) ==
    IF node.type = "Identifier" THEN <<node.name>>
    ELSE IF node.type = "MemberExpression"
    THEN LET objectPath == buildMemberPath(node.object)
             propertyName == getPropertyName(node)
         IN  IF objectPath = Null \/ propertyName = Null THEN Null
             ELSE objectPath \o propertyName
    ELSE Null

isDriftCall(node) ==
    /\ node.type = "CallExpression"
    /\ node.callee.type = "Identifier"
    /\ node.callee.name = "drift"

-----------------------------------------------------------------------------
(* Rule drift-only-titan-async.                                            *)

Report(messageId, data) == [messageId |-> messageId, data |-> data]

getArgumentPreview(argument) ==
    CASE argument.type = "Identifier" -> <<argument.name>>
      [] argument.type = "Literal" -> argument.value
      [] argument.type = "CallExpression" ->
            IF buildMemberPath(argument.callee) # Null
            THEN buildMemberPath(argument.callee) ELSE <<"<function call>">>
      [] argument.type = "MemberExpression" ->
            IF buildMemberPath(argument) # Null
            THEN buildMemberPath(argument) ELSE <<"<member access>">>
      [] argument.type \in {"ArrowFunctionExpression", "FunctionExpression"}
            -> <<"<function>">>
      [] OTHER -> <<"<expression>">>

reportInvalidDriftUsage(argPreview) ==
    <<Report("driftOnlyForTitanAsync", argPreview)>>

\* The reports made after a reference (not a call) was found to be Titan:
\* context.report(driftRequiresCall); return;
ReferenceReports(isTitan, method, argument) ==
    IF isTitan THEN <<Report("driftRequiresCall", method)>>
    ELSE reportInvalidDriftUsage(getArgumentPreview(argument))

\* if (argument.type !== 'CallExpression') { ... }
DriftReferenceArgument(dc, memo, files, argument, context) ==
    LET Checked(method, c) ==
            [reports |-> ReferenceReports(c.res.isTitan, method, argument),
             dc |-> c.dc, memo |-> memo]
        Reference(method) ==
            Checked(method, checkTitanCallee(dc, files, method, context))
        MemberPath(methodPath) ==
            IF argument.type = "MemberExpression" /\ methodPath # Null
            THEN <<methodPath>>
            ELSE IF argument.type = "Identifier"
            THEN <<<<argument.name>>>>
            ELSE <<>>
        Referenced(found) ==
            IF found # <<>> THEN Reference(found[1])
            ELSE [reports |-> reportInvalidDriftUsage(
                                  getArgumentPreview(argument)),
                  dc |-> dc, memo |-> memo]
    IN  Referenced(MemberPath(buildMemberPath(argument)))

\* A rule that lets every Titan callee through.
NoSyncMethodReports(isAsync, methodPath, resolvedPath) == <<>>

\* if (!isAsyncMethod(resolvedPath, ...)) report(...Alias or not)
SyncMethodReports(isAsync, methodPath, resolvedPath) ==
    IF isAsync THEN <<>>
    ELSE IF resolvedPath # methodPath
    THEN <<Report("driftNotForSyncMethodsAlias", methodPath)>>
    ELSE <<Report("driftNotForSyncMethods", methodPath)>>

DriftCallArgument(dc, memo, files, argument, context) ==
    LET Classified(methodPath, c, a) ==
            [reports |-> SyncMethodReports(a.res, methodPath,
                                           c.res.resolvedPath),
             dc |-> a.dc, memo |-> a.memo]
        Checked(methodPath, c) ==
            IF ~c.res.isTitan
            THEN [reports |-> reportInvalidDriftUsage(methodPath),
                  dc |-> c.dc, memo |-> memo]
            ELSE Classified(methodPath, c,
                            isAsyncMethod(c.dc, memo, files,
                                          c.res.resolvedPath, context))
        Callee(methodPath) ==
            IF methodPath = Null
            THEN [reports |-> reportInvalidDriftUsage(
                                  getArgumentPreview(argument)),
                  dc |-> dc, memo |-> memo]
            ELSE Checked(methodPath,
                         checkTitanCallee(dc, files, methodPath, context))
    IN  Callee(buildMemberPath(argument.callee))

\* create(context).CallExpression(node)
driftOnlyTitanAsync(dc, memo, files, node, context) ==
    IF ~isDriftCall(node)
    THEN [reports |-> <<>>, dc |-> dc, memo |-> memo]
    ELSE IF Len(node.arguments) = 0
    THEN [reports |-> <<Report("driftRequiresArgument", Null)>>,
          dc |-> dc, memo |-> memo]
    ELSE IF node.arguments[1].type # "CallExpression"
    THEN DriftReferenceArgument(dc, memo, files, node.arguments[1], context)
    ELSE DriftCallArgument(dc, memo, files, node.arguments[1], context)

-----------------------------------------------------------------------------
(* Rule require-drift and its table of async methods.                      *)

TITAN_ASYNC_METHODS ==
    {<<"t", "fetch">>, <<"Titan", "fetch">>}
    \cup {<<g, "core", "fs", m>> : g \in {"t", "Titan"},
              m \in {"readFile", "writeFile", "remove", "mkdir", "readdir",
                     "stat", "exists"}}
    \cup {<<g, "core", "crypto", m>> : g \in {"t", "Titan"},
              m \in {"hash", "encrypt", "decrypt", "hashKeyed"}}
    \cup {<<g, "core", "net", "resolveDNS">> : g \in {"t", "Titan"}}
    \cup {<<g, "core", "time", "sleep">> : g \in {"t", "Titan"}}
    \cup {<<g, "core", "session", m>> : g \in {"t", "Titan"},
              m \in {"get", "set", "delete", "clear"}}

isTitanAsyncMethod(methodPath) == methodPath \in TITAN_ASYNC_METHODS

\* node.parent: [type, callee, arguments, includesNode], includesNode
\* standing for parent.arguments.includes(node); NoParent when absent.
NoParent == [type |-> "Program"]

isWrappedInDrift(node) ==
    /\ node.parent.type = "CallExpression"
    /\ isDriftCall(node.parent)
    /\ node.parent.includesNode

\* create(context).CallExpression(node)
requireDrift(node) ==
    IF isDriftCall(node) THEN <<>>
    ELSE IF isWrappedInDrift(node) THEN <<>>
    ELSE LET methodPath == buildMemberPath(node.callee)
         IN  IF methodPath = Null THEN <<>>
             ELSE IF isTitanAsyncMethod(methodPath)
             THEN <<Report("requireDrift", methodPath)>>
             ELSE <<>>

-----------------------------------------------------------------------------
(* Declaration documents and source files the projects are drawn from.     *)

Func(name, ret) == [kind |-> "func", name |-> name, ret |-> ret]

Ns(name, body) == [kind |-> "ns", name |-> name, body |-> body]

Method(name, ret) == [kind |-> "method", name |-> name, ret |-> ret]

Prop(name, type) == [kind |-> "prop", name |-> name, type |-> type]

DeclareNamespace(name, body) ==
    [kind |-> "namespace", name |-> name, declared |-> TRUE, body |-> body,
     interfaces |-> <<>>]

DeclareTypes(name, interfaces) ==
    [kind |-> "namespace", name |-> name, declared |-> TRUE, body |-> <<>>,
     interfaces |-> interfaces]

DeclareGlobal(consts, interfaces, typeofs) ==
    [kind |-> "global", consts |-> consts, interfaces |-> interfaces,
     typeofs |-> typeofs]

DtsFile(blocks) == [readable |-> TRUE, blocks |-> blocks]

PromiseOf(x) == <<"Promise", "<", x, ">">>

\* declare namespace t {
\*   function fetch(url: string): Promise<Response>;
\*   function get(key: string): string;
\*   function stat(p: string): { size: number };
\*   namespace core {
\*     function get(key: string): Promise<string>;
\*     namespace fs { function readFile(p: string): Promise<string>; }
\*     namespace path { function join(...p: string[]): string; }
\*   }
\* }
CoreDts ==
    DtsFile(<<DeclareNamespace("t", <<
        Func("fetch", PromiseOf("Response")),
        Func("get", <<"string">>),
        Func("stat", <<"{", "size", ":", "number", "}">>),
        Ns("core", <<
            Func("get", PromiseOf("string")),
            Ns("fs", <<Func("readFile", PromiseOf("string"))>>),
            Ns("path", <<Func("join", <<"string">>)>>) >>) >>)>>)

\* node_modules/titan-database/index.d.ts
\* declare namespace t { namespace db {
\*   function query(sql: string): Promise<Array<any>>;
\*   function isConnected(): boolean; } }
DbDts ==
    DtsFile(<<DeclareNamespace("t", <<
        Ns("db", <<
            Func("query", <<"Promise", "<", "Array", "<", "any", ">", ">">>),
            Func("isConnected", <<"boolean">>) >>) >>)>>)

\* declare namespace TitanCore {
\*   interface FileSystem { readFile(p: string): Promise<string>;
\*                          exists(p: string): boolean; } }
\* declare global {
\*   const t: TitanRuntimeUtils;
\*   interface TitanRuntimeUtils { fetch(url: string): string;
\*       log(msg: string): void; fs: TitanCore.FileSystem; }
\*   const myFetch: typeof t.fetch;
\* }
InterfaceDts ==
    DtsFile(<<
        DeclareTypes("TitanCore", <<
            [name |-> "FileSystem",
             members |-> <<Method("readFile", PromiseOf("string")),
                           Method("exists", <<"boolean">>)>>] >>),
        DeclareGlobal(
            <<[varName |-> "t", typeName |-> <<"TitanRuntimeUtils">>]>>,
            <<[name |-> "TitanRuntimeUtils",
               members |-> <<Method("fetch", <<"string">>),
                             Method("log", <<"void">>),
                             Prop("fs", <<"TitanCore", "FileSystem">>)>>]>>,
            <<[aliasName |-> "myFetch", path |-> <<"t", "fetch">>]>>) >>)

\* declare global { const globalFetch: typeof t.fetch;
\*                  const globalJoin: typeof t.core.path.join; }
GlobalsDts ==
    DtsFile(<<DeclareGlobal(<<>>, <<>>, <<
        [aliasName |-> "globalFetch", path |-> <<"t", "fetch">>],
        [aliasName |-> "globalJoin",
         path |-> <<"t", "core", "path", "join">>] >>)>>)

UnreadableDts == [readable |-> FALSE, blocks |-> <<>>]

\* declare namespace t { function fetch(url: string): string; }
OtherDts ==
    DtsFile(<<DeclareNamespace("t", <<Func("fetch", <<"string">>)>>)>>)

SourceFile(content) == [readable |-> TRUE, content |-> content]

Destructure(props, base) ==
    [kind |-> "destructure", props |-> props, base |-> base]

Assign(aliasName, path, exported) ==
    [kind |-> "assign", aliasName |-> aliasName, path |-> path,
     exported |-> exported]

Object(objectName, props) ==
    [kind |-> "object", objectName |-> objectName, props |-> props]

\* const { fetch } = t;
\* const { join: pathJoin } = t.core.path;
DestructuredJs ==
    SourceFile(<<
        Destructure(<<[name |-> "fetch", alias |-> "fetch"]>>, <<"t">>),
        Destructure(<<[name |-> "join", alias |-> "pathJoin"]>>,
                    <<"t", "core", "path">>) >>)

\* const myFetch = t.fetch;
\* const db = t.db;
\* export const fs = t.core.fs;
AssignmentsJs ==
    SourceFile(<<
        Assign("myFetch", <<"t", "fetch">>, FALSE),
        Assign("db", <<"t", "db">>, FALSE),
        Assign("fs", <<"t", "core", "fs">>, TRUE) >>)

\* const utils = { fetch: t.fetch, db: t.db, name: 'x' };
ObjectsJs ==
    SourceFile(<<
        Object("utils", <<[propName |-> "fetch", path |-> <<"t", "fetch">>],
                          [propName |-> "db", path |-> <<"t", "db">>],
                          [propName |-> "name", path |-> <<"x">>]>>) >>)

\* const store = t.db;
\* const run = store.query;
ChainedJs ==
    SourceFile(<<
        Assign("store", <<"t", "db">>, FALSE),
        Assign("run", <<"store", "query">>, FALSE) >>)

\* export const db = { query: t.core.path.join };
DbHelpersJs ==
    SourceFile(<<
        Object("db", <<[propName |-> "query",
                        path |-> <<"t", "core", "path", "join">>]>>) >>)

-----------------------------------------------------------------------------
(* The state machine: a process that lints files of two projects.          *)
(*   fs        the files on disk (fixed during a run)                      *)
(*   dtsCache  the module-level dtsCache of dts-file-checker.js            *)
(*   cache     the module-level AsyncMethodCache of index.js               *)
(*   last      the last call made and what it returned                     *)
(*   roots     the project roots of the files the calls were made for      *)
(*             since the caches were last empty                            *)
(*   scanLog   the project roots initializeCache scanned, in order, with   *)
(*             a mark at each clearAllCaches                               *)
(*   steps     the number of calls made                                    *)
(*   inCall    the position of a call that is followed statement by        *)
(*             statement, when there is one                                *)

MaxSteps == 3

Proj1 == <<"proj1">>

Proj2 == <<"proj2">>

Project(nodeModules, dts, sources) ==
    [nodeModules |-> nodeModules, dts |-> dts, sources |-> sources]

\* Two projects on disk; the second one is fixed.
Disk(project) ==
    [packageJson |-> {Proj1, Proj2},
     projects |-> [r \in {Proj1, Proj2} |->
                      IF r = Proj1 THEN project
                      ELSE Project(<<>>, <<OtherDts>>, <<>>)]]

\* The files linted.
AppJs == [filename |-> <<"proj1", "app", "test.js">>, text |-> Null]

\* const q = t.db;
InlineJs ==
    [filename |-> <<"proj1", "app", "inline.js">>,
     text |-> <<Assign("q", <<"t", "db">>, FALSE)>>]

OtherJs == [filename |-> <<"proj2", "src", "b.js">>, text |-> Null]

TmpJs == [filename |-> <<"tmp", "x.js">>, text |-> Null]

RootOf(context) == findProjectRoot(fs, dirname(context.filename))

\* initializeCache went past its first return during a call that took the
\* dtsCache from `before` to `after`: it leaves initialized = true and the
\* root it scanned, and returns early only when both were so already.
ScanRan(before, after) ==
    /\ after.initialized
    /\ (~before.initialized \/ after.projectRoot # before.projectRoot)

Invalidated == <<"clearAllCaches">>

LogScan(log, before, after) ==
    IF ScanRan(before, after) THEN Append(log, after.projectRoot) ELSE log

\* No call is followed statement by statement.
NoCall == [fn |-> "none"]

InitCaches ==
    /\ dtsCache = EmptyDtsCache
    /\ cache = EmptyMap
    /\ last = [op |-> "none"]
    /\ roots = {}
    /\ scanLog = <<>>
    /\ steps = 0
    /\ inCall = NoCall

\* detectAsyncMethod(methodPath, context, node)
Classify(methodPath, context) ==
    /\ steps < MaxSteps
    /\ LET Returned(d) ==
               /\ dtsCache' = d.dc
               /\ cache' = d.memo
               /\ last' = [op |-> "classify", name |-> methodPath,
                           context |-> context, res |-> d.res]
       IN  Returned(detectAsyncMethod(dtsCache, cache, fs, methodPath,
                                      context))
    /\ roots' = roots \cup {RootOf(context)}
    /\ scanLog' = LogScan(scanLog, dtsCache, dtsCache')
    /\ steps' = steps + 1
    /\ UNCHANGED <<fs, inCall>>

\* isTitanAlias(name, context)
IsAlias(name, context) ==
    /\ steps < MaxSteps
    /\ LET Returned(a) ==
               /\ dtsCache' = a.dc
               /\ last' = [op |-> "isAlias", name |-> name,
                           context |-> context, res |-> a.res]
       IN  Returned(isTitanAlias(dtsCache, fs, name, context))
    /\ roots' = roots \cup {RootOf(context)}
    /\ scanLog' = LogScan(scanLog, dtsCache, dtsCache')
    /\ steps' = steps + 1
    /\ UNCHANGED <<fs, cache, inCall>>

\* resolveAlias(methodPath, context)
Resolve(methodPath, context) ==
    /\ steps < MaxSteps
    /\ LET Returned(r) ==
               /\ dtsCache' = r.dc
               /\ last' = [op |-> "resolve", name |-> methodPath,
                           context |-> context, res |-> r.res]
       IN  Returned(resolveAlias(dtsCache, fs, methodPath, context))
    /\ roots' = roots \cup {RootOf(context)}
    /\ scanLog' = LogScan(scanLog, dtsCache, dtsCache')
    /\ steps' = steps + 1
    /\ UNCHANGED <<fs, cache, inCall>>

\* clearAllCaches(): cache.clear(); clearDtsCache()
ClearAllCaches ==
    /\ steps < MaxSteps
    /\ cache' = EmptyMap
    /\ dtsCache' = clearDtsCache
    /\ last' = [op |-> "clearAllCaches"]
    /\ roots' = {}
    /\ scanLog' = Append(scanLog, Invalidated)
    /\ steps' = steps + 1
    /\ UNCHANGED <<fs, inCall>>

-----------------------------------------------------------------------------
(* Classification of paths against the declaration documents.              *)

DtsChoices ==
    {<<>>, <<CoreDts>>, <<CoreDts, InterfaceDts>>, <<InterfaceDts, CoreDts>>,
     <<CoreDts, GlobalsDts>>, <<UnreadableDts, CoreDts>>}

DetectFileSystems ==
    {Disk(Project(nm, dts, <<AssignmentsJs>>)) :
        nm \in {<<>>, <<DbDts>>}, dts \in DtsChoices}

DetectNames ==
    {<<"t", "fetch">>, <<"t", "get">>, <<"t", "readFile">>,
     <<"t", "stat">>, <<"t", "unknown">>, <<"t", "db", "query">>,
     <<"myFetch">>, <<"foo", "bar">>}

DetectContexts == {AppJs, InlineJs, OtherJs, TmpJs}

InitDetect == fs \in DetectFileSystems /\ InitCaches

NextDetect ==
    \/ \E n \in DetectNames, c \in DetectContexts : Classify(n, c)
    \/ ClearAllCaches

SpecDetect == InitDetect /\ [][NextDetect]_vars

-----------------------------------------------------------------------------
(* What the declaration documents of a project declare, read off the       *)
(* documents themselves: a function at the path of the namespace blocks    *)
(* that lexically enclose it, and a method of the named type bound to a    *)
(* runtime root at the path of the properties that lead to it.             *)

MaxTypeDepth == 3

RuntimeRoots == {"t", "Titan"}

RootedName(name) == Len(name) >= 2 /\ name[1] \in RuntimeRoots

PromiseType(ret) == Len(ret) >= 2 /\ ret[1] = "Promise" /\ ret[2] = "<"

RECURSIVE NamespaceDeclares(_, _)
NamespaceDeclares(items, prefix) ==
    IF items = <<>> THEN {}
    ELSE LET h == Head(items)
         IN  (IF h.kind = "func"
              THEN {[path |-> prefix \o <<h.name>>, ret |-> h.ret]}
              ELSE NamespaceDeclares(h.body, prefix \o <<h.name>>))
             \cup NamespaceDeclares(Tail(items), prefix)

ReadableDocs(project) ==
    {project.nodeModules[i] : i \in {j \in DOMAIN project.nodeModules :
                                        project.nodeModules[j].readable}}
    \cup {project.dts[i] : i \in {j \in DOMAIN project.dts :
                                     project.dts[j].readable}}

BlocksOf(project) ==
    UNION {{doc.blocks[i] : i \in DOMAIN doc.blocks} :
              doc \in ReadableDocs(project)}

NamedTypes(project) ==
    UNION {IF b.kind = "global"
           THEN {[name |-> <<b.interfaces[i].name>>,
                  members |-> b.interfaces[i].members] :
                     i \in DOMAIN b.interfaces}
           ELSE {[name |-> <<b.name, b.interfaces[i].name>>,
                  members |-> b.interfaces[i].members] :
                     i \in DOMAIN b.interfaces} :
              b \in BlocksOf(project)}

RECURSIVE TypeDeclares(_, _, _, _)
TypeDeclares(types, typeName, prefix, depth) ==
    IF depth = 0 THEN {}
    ELSE UNION {UNION {IF ty.members[i].kind = "method"
                       THEN {[path |-> prefix \o <<ty.members[i].name>>,
                              ret |-> ty.members[i].ret]}
                       ELSE TypeDeclares(types, ty.members[i].type,
                                         prefix \o <<ty.members[i].name>>,
                                         depth - 1) :
                          i \in DOMAIN ty.members} :
                   ty \in {x \in types : x.name = typeName}}

Declares(project) ==
    UNION {IF b.kind = "namespace"
           THEN (IF b.name \in RuntimeRoots
                 THEN NamespaceDeclares(b.body, <<b.name>>) ELSE {})
           ELSE UNION {IF b.consts[i].varName \in RuntimeRoots
                       THEN TypeDeclares(NamedTypes(project),
                                         b.consts[i].typeName,
                                         <<b.consts[i].varName>>,
                                         MaxTypeDepth)
                       ELSE {} : i \in DOMAIN b.consts} :
              b \in BlocksOf(project)}

Declared(project, p) == \E d \in Declares(project) : d.path = p

DeclaredAsync(project, p) ==
    \E d \in Declares(project) : d.path = p /\ PromiseType(d.ret)

LastRoot == RootOf(last.context)

LastProject == fs.projects[LastRoot]

-----------------------------------------------------------------------------
(* Properties of classification.                                           *)

\* C1: once a project root is initialized, a path that a declaration
\* document of that root declares with a Promise<...> return type is
\* classified isAsync = true with source 'dts-file', after any sequence of
\* earlier calls under the same root.
C1_DeclaredPromiseIsAsync ==
    (/\ last.op = "classify"
     /\ LastRoot # NoRoot
     /\ roots = {LastRoot}
     /\ DeclaredAsync(LastProject, last.name))
        => (last.res.isAsync /\ last.res.source = "dts-file")

\* A path declared with a Promise return type by a namespace block and
\* with another return type by the named type bound to `t` was classified.
C1_ConflictClassified ==
    /\ last.op = "classify"
    /\ LastRoot # NoRoot
    /\ roots = {LastRoot}
    /\ DeclaredAsync(LastProject, last.name)
    /\ \E d \in Declares(LastProject) :
           d.path = last.name /\ ~PromiseType(d.ret)

\* C2: a path whose declarations all have a non-Promise return type is
\* classified isAsync = false with source 'dts-file', whatever other paths
\* the documents declare.
C2_DeclaredSyncIsSync ==
    (/\ last.op = "classify"
     /\ LastRoot # NoRoot
     /\ roots = {LastRoot}
     /\ Declared(LastProject, last.name)
     /\ ~DeclaredAsync(LastProject, last.name))
        => (~last.res.isAsync /\ last.res.source = "dts-file")

\* C3: a path rooted at `t.` or `Titan.` that no declaration document of
\* the project declares is classified as the permissive fallback.
C3_UndeclaredIsFallback ==
    (/\ last.op = "classify"
     /\ RootedName(last.name)
     /\ roots = {LastRoot}
     /\ (LastRoot = NoRoot \/ ~Declared(LastProject, last.name)))
        => last.res = [isAsync |-> FALSE, source |-> "fallback",
                       returnType |-> Null]

\* The alias table resolves a name: it is a key, or its head segment is a
\* module alias.
ResolvesThroughAliasTable(aliases, name) ==
    \/ name \in DOMAIN aliases
    \/ /\ Len(name) >= 2
       /\ <<name[1]>> \in DOMAIN aliases
       /\ aliases[<<name[1]>>].isModule

\* C4: a name that neither begins with a runtime-root symbol nor resolves
\* through the alias table is classified {isAsync: false, source: null,
\* returnType: null}.
C4_UnrootedNonAliasIsNone ==
    (/\ last.op = "classify"
     /\ ~RootedName(last.name)
     /\ ~ResolvesThroughAliasTable(dtsCache.aliases, last.name))
        => last.res = [isAsync |-> FALSE, source |-> "null",
                       returnType |-> Null]

\* A dotted non-Titan name was classified while the alias table held
\* aliases, and a name that is an alias in one project was classified in
\* another.
C4_NonAliasClassified ==
    /\ last.op = "classify"
    /\ ~RootedName(last.name)
    /\ ~ResolvesThroughAliasTable(dtsCache.aliases, last.name)
    /\ \/ last.name = <<"foo", "bar">> /\ dtsCache.aliases # EmptyMap
       \/ last.name = <<"myFetch">> /\ last.context = OtherJs
          /\ Proj1 \in roots

\* C6: within one initialization, a path registered as asynchronous by any
\* declaration (namespace block or named-type resolution, in any order) is
\* asynchronous in the final registry.
C6_FirstAsyncWins ==
    (dtsCache.initialized /\ dtsCache.projectRoot # NoRoot)
        => \A p \in DOMAIN dtsCache.methods :
               DeclaredAsync(fs.projects[dtsCache.projectRoot], p)
                   => dtsCache.methods[p].isAsync

-----------------------------------------------------------------------------
(* Alias queries against the source files of a project.                    *)

SourceChoices ==
    {<<>>, <<DestructuredJs, AssignmentsJs>>, <<AssignmentsJs, ObjectsJs>>,
     <<AssignmentsJs, DbHelpersJs>>, <<AssignmentsJs, ChainedJs>>}

AliasFileSystems ==
    {Disk(Project(nm, <<CoreDts>>, src)) :
        nm \in {<<>>, <<DbDts>>}, src \in SourceChoices}

AliasNames ==
    {<<"db", "query">>, <<"t", "db", "query">>, <<"utils", "db">>,
     <<"t", "db">>, <<"utils", "fetch">>, <<"t", "fetch">>,
     <<"q", "query">>, <<"db">>, <<"run">>}

AliasContexts == {AppJs, InlineJs}

InitAlias == fs \in AliasFileSystems /\ InitCaches

NextAlias ==
    \/ \E n \in AliasNames, c \in AliasContexts : Classify(n, c)
    \/ \E n \in AliasNames, c \in AliasContexts : IsAlias(n, c)
    \/ \E n \in AliasNames, c \in AliasContexts : Resolve(n, c)
    \/ ClearAllCaches

SpecAlias == InitAlias /\ [][NextAlias]_vars

\* name is 'a.s' for a module alias a of P, and path is 'P.s'.
ThroughModuleAlias(aliases, name, path) ==
    /\ Len(name) >= 2
    /\ <<name[1]>> \in DOMAIN aliases
    /\ aliases[<<name[1]>>].isModule
    /\ path = aliases[<<name[1]>>].originalPath \o Tail(name)

\* C5 as stated: if a is a module alias of P then classify('a.s') and
\* classify('P.s') return the same result, in whichever order the two
\* queries are issued, for every suffix s.
C5_AliasTransitivityAnySuffix ==
    [][(/\ last.op = "classify"
        /\ last'.op = "classify"
        /\ last.context = last'.context
        /\ \/ ThroughModuleAlias(dtsCache'.aliases, last.name, last'.name)
           \/ ThroughModuleAlias(dtsCache'.aliases, last'.name, last.name))
          => last'.res = last.res]_vars

\* C5: if a is a module alias of P then, for every suffix s such that
\* 'a.s' is not itself a key of the alias table, classify('a.s') and
\* classify('P.s') return the same result in whichever order the two
\* queries are issued.
C5_AliasTransitivity ==
    [][(/\ last.op = "classify"
        /\ last'.op = "classify"
        /\ last.context = last'.context
        /\ last.name \notin DOMAIN dtsCache'.aliases
        /\ last'.name \notin DOMAIN dtsCache'.aliases
        /\ \/ ThroughModuleAlias(dtsCache'.aliases, last.name, last'.name)
           \/ ThroughModuleAlias(dtsCache'.aliases, last'.name, last.name))
          => last'.res = last.res]_vars

\* 'db.query' was classified through the module alias db of t.db, and
\* then 't.db.query' was, with an asynchronous result.
C5_BothClassified ==
    /\ last.op = "classify"
    /\ last.name = <<"t", "db", "query">>
    /\ last.res.isAsync
    /\ <<"db", "query">> \in DOMAIN cache
    /\ <<"db", "query">> \notin DOMAIN dtsCache.aliases
    /\ ThroughModuleAlias(dtsCache.aliases, <<"db", "query">>, last.name)

\* C7: for 'a.rest' whose head a is a module alias of P, resolveAlias
\* returns resolvedPath 'P.rest', wasAlias true and isModule true,
\* including when 'P.rest' is a registered method.
C7_ModuleAliasResolveIsModule ==
    (/\ last.op = "resolve"
     /\ LastRoot # NoRoot
     /\ last.name \notin DOMAIN dtsCache.aliases
     /\ \E path \in {dtsCache.aliases[a].originalPath \o Tail(last.name) :
                        a \in DOMAIN dtsCache.aliases} :
            ThroughModuleAlias(dtsCache.aliases, last.name, path))
        => last.res =
               [resolvedPath |-> dtsCache.aliases[<<last.name[1]>>]
                                     .originalPath \o Tail(last.name),
                wasAlias |-> TRUE, isModule |-> TRUE]

ObjectKeys(aliases) ==
    {k \in DOMAIN aliases : aliases[k].source = "object-property"}

\* C8: an alias created from an object-literal property is never reported
\* as a module alias: isAlias('obj.prop') and resolve('obj.prop') report
\* isModule = false even when the registry holds paths under the target,
\* and classify('obj.prop') equals classify of the target.
C8_ObjectAliasNeverModule ==
    (/\ last.op \in {"isAlias", "resolve", "classify"}
     /\ LastRoot # NoRoot
     /\ last.name \in ObjectKeys(dtsCache.aliases))
        => /\ last.op \in {"isAlias", "resolve"} => ~last.res.isModule
           /\ detectAsyncMethod(dtsCache, cache, fs, last.name,
                                last.context).res
              = detectAsyncMethod(dtsCache, cache, fs,
                                  dtsCache.aliases[last.name].originalPath,
                                  last.context).res

-----------------------------------------------------------------------------
(* The two drift rules, visiting call expressions of a linted file.        *)

Id(name) == [type |-> "Identifier", name |-> name]

Str(value) == [type |-> "Literal", value |-> value]

Member(object, name) ==
    [type |-> "MemberExpression", object |-> object, property |-> Id(name),
     computed |-> FALSE]

Index(object, value) ==
    [type |-> "MemberExpression", object |-> object,
     property |-> Str(value), computed |-> TRUE]

Call(callee, arguments) ==
    [type |-> "CallExpression", callee |-> callee, arguments |-> arguments]

Arrow == [type |-> "ArrowFunctionExpression"]

Drift(arguments) == Call(Id("drift"), arguments)

\* A call expression below `parent`; includesNode tells whether it is one
\* of the parent's arguments.
Under(node, parent, includesNode) ==
    [type |-> node.type, callee |-> node.callee,
     arguments |-> node.arguments,
     parent |-> [type |-> parent.type, callee |-> parent.callee,
                 arguments |-> parent.arguments,
                 includesNode |-> includesNode]]

TopLevel(node) ==
    [type |-> node.type, callee |-> node.callee,
     arguments |-> node.arguments, parent |-> NoParent]

TFetch == Member(Id("t"), "fetch")

TPathJoin == Member(Member(Member(Id("t"), "core"), "path"), "join")

TWsConnect == Member(Member(Id("t"), "ws"), "connect")

TReadFile == Member(Member(Member(Id("t"), "core"), "fs"), "readFile")

TCryptoHash == Member(Member(Member(Id("t"), "core"), "crypto"), "hash")

DbQuery == Member(Id("db"), "query")

\* node_modules/titan-websocket/index.d.ts
\* declare namespace t { namespace ws {
\*   function connect(url: string): Promise<WebSocket>;
\*   function isConnected(): boolean; } }
WsDts ==
    DtsFile(<<DeclareNamespace("t", <<
        Ns("ws", <<
            Func("connect", PromiseOf("WebSocket")),
            Func("isConnected", <<"boolean">>) >>) >>)>>)

\* The drift(...) calls, and one call that is not to drift.
DriftNodes ==
    {Drift(<<>>),
     Drift(<<Call(TFetch, <<Str(<<"/api">>)>>)>>),
     Drift(<<Call(TPathJoin, <<>>)>>),
     Drift(<<Call(TWsConnect, <<>>)>>),
     Drift(<<Call(Id("fetch"), <<>>)>>),
     Drift(<<Call(Id("pathJoin"), <<>>)>>),
     Drift(<<Call(DbQuery, <<>>)>>),
     Drift(<<Call(Member(Id("foo"), "bar"), <<>>)>>),
     Drift(<<Call(Index(Id("t"), <<"fetch">>), <<>>)>>),
     Drift(<<Call(Call(Id("getFn"), <<>>), <<>>)>>),
     Drift(<<TFetch>>),
     Drift(<<Id("myFetch")>>),
     Drift(<<Id("t")>>),
     Drift(<<Str(<<"x">>)>>),
     Drift(<<Arrow>>),
     Call(TFetch, <<Str(<<"/api">>)>>)}

\* The call expressions the require-drift rule visits.
RequireNodes ==
    {TopLevel(Call(TFetch, <<>>)),
     TopLevel(Call(TWsConnect, <<>>)),
     TopLevel(Call(Id("fetch"), <<>>)),
     TopLevel(Call(DbQuery, <<>>)),
     TopLevel(Call(TPathJoin, <<>>)),
     TopLevel(Call(TReadFile, <<>>)),
     TopLevel(Call(TCryptoHash, <<>>)),
     TopLevel(Drift(<<Call(TFetch, <<>>)>>)),
     Under(Call(TFetch, <<>>), Drift(<<Call(TFetch, <<>>)>>), TRUE),
     Under(Call(TWsConnect, <<>>), Drift(<<Call(TWsConnect, <<>>)>>), TRUE),
     Under(Call(TFetch, <<>>), Call(Id("foo"), <<Call(TFetch, <<>>)>>),
           TRUE)}

RulesFileSystems ==
    {Disk(Project(nm, <<CoreDts>>, src)) :
        nm \in {<<>>, <<WsDts, DbDts>>},
        src \in {<<>>, <<DestructuredJs, AssignmentsJs>>}}

RulesContexts == {AppJs, TmpJs}

\* drift-only-titan-async: CallExpression(node)
LintDriftOnly(node, context) ==
    /\ steps < MaxSteps
    /\ LET Returned(r) ==
               /\ dtsCache' = r.dc
               /\ cache' = r.memo
               /\ last' = [op |-> "driftOnly", node |-> node,
                           context |-> context, reports |-> r.reports]
       IN  Returned(driftOnlyTitanAsync(dtsCache, cache, fs, node, context))
    /\ roots' = roots \cup {RootOf(context)}
    /\ scanLog' = LogScan(scanLog, dtsCache, dtsCache')
    /\ steps' = steps + 1
    /\ UNCHANGED <<fs, inCall>>

\* require-drift: CallExpression(node)
LintRequireDrift(node, context) ==
    /\ steps < MaxSteps
    /\ last' = [op |-> "requireDrift", node |-> node, context |-> context,
                reports |-> requireDrift(node)]
    /\ roots' = roots \cup {RootOf(context)}
    /\ steps' = steps + 1
    /\ UNCHANGED <<fs, dtsCache, cache, scanLog, inCall>>

InitRules == fs \in RulesFileSystems /\ InitCaches

NextRules ==
    \/ \E n \in DriftNodes, c \in RulesContexts : LintDriftOnly(n, c)
    \/ \E n \in RequireNodes, c \in RulesContexts : LintRequireDrift(n, c)
    \/ ClearAllCaches

SpecRules == InitRules /\ [][NextRules]_vars

\* The path is a Titan path, or the alias table resolves it to one.
ResolvesToTitan(path, context) ==
    /\ path # Null
    /\ \/ RootedName(path)
       \/ LET Known(a) == a.isAlias /\ RootedName(a.originalPath)
          IN  Known(checkForAlias(dtsCache, fs, path, context).res)

ClassifiedAsync(path, context) ==
    detectAsyncMethod(dtsCache, cache, fs, path, context).res.isAsync

\* The path a reference names: a member chain or a bare identifier.
ReferencePath(argument) ==
    IF argument.type \in {"MemberExpression", "Identifier"}
    THEN buildMemberPath(argument) ELSE Null

\* The reports drift-only-titan-async owes a drift(...) call, by message.
DriftMessages(node, context) ==
    IF node.arguments = <<>> THEN {"driftRequiresArgument"}
    ELSE IF node.arguments[1].type = "CallExpression"
    THEN (IF ~ResolvesToTitan(buildMemberPath(node.arguments[1].callee),
                              context)
          THEN {"driftOnlyForTitanAsync"}
          ELSE IF ClassifiedAsync(buildMemberPath(node.arguments[1].callee),
                                  context)
          THEN {}
          ELSE {"driftNotForSyncMethods", "driftNotForSyncMethodsAlias"})
    ELSE IF ResolvesToTitan(ReferencePath(node.arguments[1]), context)
    THEN {"driftRequiresCall"}
    ELSE {"driftOnlyForTitanAsync"}

\* C9: for every drift(...) call the rule drift-only-titan-async emits at
\* most one report; none exactly when the first argument is a call whose
\* callee is, or resolves through an alias to, a Titan path classified
\* async; otherwise the one report carries the message owed to the kind of
\* argument.
C9_DriftOnlyOneOwedReport ==
    [][(last'.op = "driftOnly" /\ last'.node.callee = Id("drift"))
          => /\ Len(last'.reports) <= 1
             /\ (last'.reports = <<>>)
                    <=> (DriftMessages(last'.node, last'.context) = {})
             /\ \A i \in DOMAIN last'.reports :
                    last'.reports[i].messageId
                        \in DriftMessages(last'.node, last'.context)]_vars

\* drift(db.query()) through a module alias passed without report, and
\* drift(pathJoin()) through an alias of a sync method was reported.
C9_AliasCallsLinted ==
    /\ last.op = "driftOnly"
    /\ \/ /\ last.node = Drift(<<Call(DbQuery, <<>>)>>)
          /\ last.reports = <<>>
       \/ /\ last.node = Drift(<<Call(Id("pathJoin"), <<>>)>>)
          /\ Len(last.reports) = 1
          /\ last.reports[1].messageId = "driftNotForSyncMethodsAlias"

\* C10: in a file of a project, require-drift reports a call exactly when
\* its callee is, or resolves through an alias to, a Titan path the
\* declaration registry classifies as async (third-party paths such as
\* t.ws.connect included), and the call is not an argument of drift().
C10_RequireDriftFollowsRegistry ==
    (last.op = "requireDrift" /\ LastRoot # NoRoot)
        => ((last.reports # <<>>)
               <=> /\ ResolvesToTitan(buildMemberPath(last.node.callee),
                                      last.context)
                   /\ ClassifiedAsync(buildMemberPath(last.node.callee),
                                      last.context)
                   /\ ~isWrappedInDrift(last.node))

\* A direct call to a Titan path: the callee is a member chain that starts
\* at a runtime root.
DirectTitanCall(node) ==
    /\ node.type = "CallExpression"
    /\ buildMemberPath(node.callee) # Null
    /\ RootedName(buildMemberPath(node.callee))

\* drift-only-titan-async makes no report for drift(call).
AcceptsWrapped(call, context) ==
    driftOnlyTitanAsync(dtsCache, cache, fs,
                        Drift(<<Call(call.callee, call.arguments)>>),
                        context).reports = <<>>

\* C11: the two rules are complementary: for a direct call p(...) to a
\* Titan path in a file of a project, require-drift reports the unwrapped
\* call exactly when drift-only-titan-async accepts drift(p(...)).
C11_RulesComplementary ==
    (/\ last.op = "requireDrift"
     /\ LastRoot # NoRoot
     /\ last.node.parent = NoParent
     /\ DirectTitanCall(last.node))
        => ((last.reports # <<>>)
               <=> AcceptsWrapped(last.node, last.context))

-----------------------------------------------------------------------------
(* The life of the caches: files of two projects and of no project are     *)
(* linted in any order, with invalidations in between.                     *)

\* The file of InlineJs after an edit:  const r = t.fetch;
\* const { core: { crypto } } = t;
NestedJs ==
    [filename |-> <<"proj1", "app", "nested.js">>,
     text |-> <<Destructure(
                   <<[name |-> "core",
                      inner |-> <<[name |-> "crypto",
                                   alias |-> "crypto"]>>]>>,
                   <<"t">>)>>]

InlineEditedJs ==
    [filename |-> <<"proj1", "app", "inline.js">>,
     text |-> <<Assign("r", <<"t", "fetch">>, FALSE)>>]

\* A source file readFileSync throws on, or an entry statSync throws on.
\* The entries of a directory readdirSync throws on are skipped together
\* in the same way.
UnreadableJs == [readable |-> FALSE, content |-> <<>>]

LifeFileSystems ==
    {Disk(Project(<<DbDts>>, <<CoreDts>>, <<AssignmentsJs>>)),
     Disk(Project(<<UnreadableDts, DbDts>>, <<UnreadableDts, CoreDts>>,
                  <<UnreadableJs, AssignmentsJs>>))}

LifeNames == {<<"t", "fetch">>, <<"q", "query">>, <<"r">>, <<"crypto">>}

LifeContexts == {InlineJs, InlineEditedJs, NestedJs, OtherJs, TmpJs}

InitLife == fs \in LifeFileSystems /\ InitCaches

NextLife ==
    \/ \E n \in LifeNames, c \in LifeContexts : Classify(n, c)
    \/ \E n \in LifeNames, c \in LifeContexts : IsAlias(n, c)
    \/ \E n \in LifeNames, c \in LifeContexts : Resolve(n, c)
    \/ ClearAllCaches

SpecLife == InitLife /\ [][NextLife]_vars

\* The scans since the last invalidation.
RECURSIVE ScansSinceInvalidation(_)
ScansSinceInvalidation(log) ==
    IF log = <<>> \/ log[Len(log)] = Invalidated THEN <<>>
    ELSE Append(ScansSinceInvalidation(SubSeq(log, 1, Len(log) - 1)),
                log[Len(log)])

\* C12: across any sequence of queries with no invalidation in between, the
\* project scan of initializeCache runs at most once for each project root,
\* also when the queries alternate between two roots.
C12_ScanOncePerRoot ==
    \A i, j \in DOMAIN ScansSinceInvalidation(scanLog) :
        i # j => ScansSinceInvalidation(scanLog)[i]
                     # ScansSinceInvalidation(scanLog)[j]

\* What the cascade answers from the registry built from the artifacts of
\* the root of the querying file alone.
FreshClassify(name, context) ==
    detectAsyncMethod(clearDtsCache, EmptyMap, fs, name, context).res

\* C13: a query classify(p) for a path p, issued from a file under project
\* root R, is answered with what the cascade computes from the registry
\* built from R's artifacts; an answer memoized while another root was
\* active is not returned for R.
C13_AnswerFromOwnRoot ==
    (/\ last.op = "classify"
     /\ LastRoot # NoRoot
     /\ RootedName(last.name))
        => last.res = FreshClassify(last.name, last.context)

\* C14: when no project root is found for the querying file, classify
\* returns the fallback result for a rooted path and the none result
\* otherwise, never one with source 'dts-file'; isAlias returns isAlias =
\* false and resolve returns the name unchanged with wasAlias = false,
\* whatever was queried before.
C14_NoRootShortCircuits ==
    (last.op \in {"classify", "isAlias", "resolve"} /\ LastRoot = NoRoot)
        => CASE last.op = "classify" ->
                    /\ last.res.source # "dts-file"
                    /\ last.res = IF RootedName(last.name)
                                  THEN FallbackResult ELSE NoneResult
             [] last.op = "isAlias" -> ~last.res.isAlias
             [] last.op = "resolve" ->
                    /\ last.res.resolvedPath = last.name
                    /\ ~last.res.wasAlias

Queries == {"classify", "isAlias", "resolve"}

\* The answer a process that has served no query yet gives to `query`.
FirstAnswer(query) ==
    CASE query.op = "classify" ->
             detectAsyncMethod(EmptyDtsCache, EmptyMap, fs, query.name,
                               query.context).res
      [] query.op = "isAlias" ->
             isTitanAlias(EmptyDtsCache, fs, query.name, query.context).res
      [] query.op = "resolve" ->
             resolveAlias(EmptyDtsCache, fs, query.name, query.context).res

\* C15: clearAllCaches() leaves the registry (methods), the named type table
\* (interfaces), the alias table and the classification cache empty,
\* initialized false and projectRoot null; the query that follows it, for
\* any root, runs the project scan and is answered as by a process that has
\* answered nothing before.
C15_InvalidateForgetsAll ==
    [][/\ (last'.op = "clearAllCaches")
              => /\ cache' = EmptyMap
                 /\ dtsCache'.methods = EmptyMap
                 /\ dtsCache'.interfaces = EmptyMap
                 /\ dtsCache'.aliases = EmptyMap
                 /\ ~dtsCache'.initialized
                 /\ dtsCache'.projectRoot = NoRoot
       /\ (/\ last.op = "clearAllCaches"
           /\ last'.op \in Queries
           /\ RootOf(last'.context) # NoRoot)
              => /\ scanLog' = Append(scanLog, RootOf(last'.context))
                 /\ last'.res = FirstAnswer(last')]_vars

C15_ScannedAgainAfterInvalidation ==
    /\ last.op = "classify"
    /\ last.res.source = "dts-file"
    /\ Len(scanLog) = 3
    /\ scanLog[2] = Invalidated
    /\ scanLog[1] = scanLog[3]

\* The tables of `after` are those of `first`, to which the call may have
\* added the alias productions of the text of the file it was made from.
SameTables(after, first, context) ==
    /\ after.methods = first.methods
    /\ after.interfaces = first.interfaces
    /\ \/ after.aliases = first.aliases
       \/ /\ context.text # Null
          /\ after.aliases
                 = parseSourceFileAliases(first, context.text).aliases

\* C16: every scan of a root R, the one after an invalidation included,
\* leaves the registry and the alias table that the first initialization of
\* R leaves, with the same keys and the same descriptors; and once R is
\* loaded, initializeCache(R) changes nothing.
C16_InitializationIdempotent ==
    [][/\ ScanRan(dtsCache, dtsCache')
              => SameTables(dtsCache',
                            initializeCache(EmptyDtsCache, fs,
                                            dtsCache'.projectRoot),
                            last'.context)
       /\ dtsCache'.initialized
              => initializeCache(dtsCache', fs, dtsCache'.projectRoot)
                     = dtsCache']_vars

C16_InitializedAgain ==
    /\ Len(scanLog) = 3
    /\ scanLog[2] = Invalidated
    /\ scanLog[1] = scanLog[3]
    /\ last.op = "isAlias"
    /\ last.res.isAlias
    /\ DOMAIN dtsCache.methods # {}

\* The files of `project` that can be read, in the order of the listing.
ReadableFiles(project) ==
    LET Readable(file) == file.readable
    IN  Project(SelectSeq(project.nodeModules, Readable),
                SelectSeq(project.dts, Readable),
                SelectSeq(project.sources, Readable))

\* The disk without the entries whose read fails.
ReadableDisk ==
    [fs EXCEPT !.projects = [r \in DOMAIN fs.projects |->
                                 ReadableFiles(fs.projects[r])]]

HasUnreadable(project) ==
    \/ \E i \in DOMAIN project.nodeModules : ~project.nodeModules[i].readable
    \/ \E i \in DOMAIN project.dts : ~project.dts[i].readable
    \/ \E i \in DOMAIN project.sources : ~project.sources[i].readable

ResultFields(op) ==
    CASE op = "classify" -> {"isAsync", "source", "returnType"}
      [] op = "isAlias" -> {"isAlias", "originalPath", "source", "isModule"}
      [] op = "resolve" -> {"resolvedPath", "wasAlias", "isModule"}

\* C17: an entry of the scan that cannot be read (a declaration document, a
\* source artifact, a package entry point) is skipped: the scan leaves the
\* tables it leaves for the same root without that entry, so every other
\* artifact was processed, and each of classify, isAlias and resolve returns
\* a result value.
C17_FailuresSkipped ==
    [][/\ ScanRan(dtsCache, dtsCache')
              => SameTables(dtsCache',
                            initializeCache(EmptyDtsCache, ReadableDisk,
                                            dtsCache'.projectRoot),
                            last'.context)
       /\ last'.op \in Queries
              => DOMAIN last'.res = ResultFields(last'.op)]_vars

C17_AnsweredPastUnreadable ==
    /\ last.op = "classify"
    /\ LastRoot # NoRoot
    /\ HasUnreadable(fs.projects[LastRoot])
    /\ dtsCache.projectRoot = LastRoot
    /\ last.res.source = "dts-file"
    /\ last.res.isAsync
    /\ DOMAIN dtsCache.aliases # {}

\* C18: a lint of a file under a project root that looks an alias up has
\* the alias productions of that file's text in the alias table; parsing
\* the text again adds nothing.  This holds on every lint of every file, a
\* later lint of the same filename with a different text included.
C18_CurrentTextParsed ==
    (/\ last.op \in {"isAlias", "resolve"}
     /\ LastRoot # NoRoot
     /\ last.context.text # Null)
        => parseSourceFileAliases(dtsCache, last.context.text).aliases
               = dtsCache.aliases

\* The bindings of a destructuring pattern under `prefix`: each innermost
\* binding with the path composed on the way down to it.
RECURSIVE Bindings(_, _)
Bindings(props, prefix) ==
    IF props = <<>> THEN {}
    ELSE LET h == Head(props)
         IN  (IF "inner" \in DOMAIN h
              THEN Bindings(h.inner, prefix \o <<h.name>>)
              ELSE {[alias |-> <<h.alias>>,
                     originalPath |-> prefix \o <<h.name>>]})
                 \cup Bindings(Tail(props), prefix)

NestedPatterns(text) ==
    {i \in 1..Len(text) :
        /\ text[i].kind = "destructure"
        /\ text[i].base[1] \in {"t", "Titan"}
        /\ ~FlatPattern(text[i].props)}

\* C19: parsing a text with a nested destructuring of a Titan root, such as
\* const { core: { crypto } } = t, records each innermost binding as an
\* alias of the composed path (crypto -> t.core.crypto).
C19_NestedDestructuringRecorded ==
    (/\ last.op \in Queries
     /\ last.context.text # Null)
        => \A i \in NestedPatterns(last.context.text) :
               \A b \in Bindings(last.context.text[i].props,
                                 last.context.text[i].base) :
                   LET parsed == parseSourceFileAliases(
                                     dtsCache, last.context.text).aliases
                   IN  /\ MapHas(parsed, b.alias)
                       /\ parsed[b.alias].originalPath = b.originalPath

\* A query made while a root is loaded, from a file under that root or
\* under no root at all.
QueryOnLoadedRoot ==
    /\ dtsCache.initialized
    /\ last'.op \in Queries
    /\ RootOf(last'.context) \in {dtsCache.projectRoot, NoRoot}

\* C20: once a root is initialized, a classify, isAlias or resolve query
\* made before the next invalidation or root change leaves the registry and
\* the named type table unchanged, and leaves the alias table unchanged or
\* with the alias productions of the querying file's text added to it.
C20_QueriesOnlyAddFileAliases ==
    [][QueryOnLoadedRoot
          => /\ dtsCache'.methods = dtsCache.methods
             /\ dtsCache'.interfaces = dtsCache.interfaces
             /\ \/ dtsCache'.aliases = dtsCache.aliases
                \/ /\ last'.context.text # Null
                   /\ dtsCache'.aliases
                          = parseSourceFileAliases(
                                dtsCache, last'.context.text).aliases]_vars

\* C20 as stated: such a query leaves the registry and the alias table
\* unchanged.
C20_QueriesChangeNothing ==
    [][QueryOnLoadedRoot
          => /\ dtsCache'.methods = dtsCache.methods
             /\ dtsCache'.aliases = dtsCache.aliases]_vars

C20_QueriedLoadedRoot ==
    /\ steps = 2
    /\ scanLog = <<Proj1>>
    /\ roots = {Proj1}
    /\ last.op = "isAlias"
    /\ last.context = InlineJs
    /\ last.res.isAlias
    /\ <<"q">> \in DOMAIN dtsCache.aliases

-----------------------------------------------------------------------------
(* The registry and the alias table a scan builds.                         *)

\* The productions of the alias extractor that ask hasSubMethods.
QueriedSources == {"destructuring", "assignment", "export"}

\* C21: within one initialization every declaration document (package entry
\* points, then the project's .d.ts files) is parsed before any source file
\* is scanned for aliases: the isModule flag of every alias that was
\* computed by a hasSubMethods query is the answer of that query on the
\* complete registry of the project.
C21_AliasesSeeCompleteRegistry ==
    dtsCache.initialized
        => \A a \in DOMAIN dtsCache.aliases :
               dtsCache.aliases[a].source \in QueriedSources
                   => dtsCache.aliases[a].isModule
                          = hasSubMethods(dtsCache.methods,
                                          dtsCache.aliases[a].originalPath)

C21_ModuleAliasFromProjectDts ==
    /\ dtsCache.initialized
    /\ <<"fs">> \in DOMAIN dtsCache.aliases
    /\ dtsCache.aliases[<<"fs">>].source = "export"
    /\ dtsCache.aliases[<<"fs">>].isModule
    /\ <<"q">> \in DOMAIN dtsCache.aliases

-----------------------------------------------------------------------------
(* One initialization, artifact by artifact: the state inside               *)
(* initializeCache after the three tables were cleared, then one step per   *)
(* file the passes hand to parseDtsFile and to parseSourceFile, the         *)
(* declaration documents first, in any order a directory listing can give.  *)

\* declare global { const core: typeof t.core; }
ModuleTypeofDts ==
    DtsFile(<<DeclareGlobal(<<>>, <<>>, <<
        [aliasName |-> "core", path |-> <<"t", "core">>] >>)>>)

\* declare namespace TitanCore {
\*   interface FileSystem { readFile(p: string): Promise<string>;
\*                          exists(p: string): boolean; } }
TypesDts ==
    DtsFile(<<
        DeclareTypes("TitanCore", <<
            [name |-> "FileSystem",
             members |-> <<Method("readFile", PromiseOf("string")),
                           Method("exists", <<"boolean">>)>>] >>) >>)

\* declare global {
\*   const t: TitanRuntimeUtils;
\*   interface TitanRuntimeUtils { log(msg: string): void;
\*                                 fs: TitanCore.FileSystem; } }
BindingDts ==
    DtsFile(<<
        DeclareGlobal(
            <<[varName |-> "t", typeName |-> <<"TitanRuntimeUtils">>]>>,
            <<[name |-> "TitanRuntimeUtils",
               members |-> <<Method("log", <<"void">>),
                             Prop("fs", <<"TitanCore", "FileSystem">>)>>]>>,
            <<>>) >>)

\* declare namespace t {
\*   function session(name: string): string;
\*   namespace session { function open(id: string): Promise<string>; } }
MergedDts ==
    DtsFile(<<DeclareNamespace("t", <<
        Func("session", <<"string">>),
        Ns("session", <<Func("open", PromiseOf("string"))>>) >>)>>)

ScanDocuments ==
    {CoreDts, DbDts, InterfaceDts, GlobalsDts, ModuleTypeofDts, TypesDts,
     BindingDts, MergedDts, UnreadableDts}

ScanSources == {DestructuredJs, AssignmentsJs, ObjectsJs, DbHelpersJs}

\* dtsCache.methods.clear(); aliases.clear(); interfaces.clear();
\* dtsCache.projectRoot = projectRoot
InitScan ==
    /\ fs = Disk(Project(<<>>, <<>>, <<>>))
    /\ dtsCache = [EmptyDtsCache EXCEPT !.projectRoot = Proj1]
    /\ cache = EmptyMap
    /\ last = [op |-> "none"]
    /\ roots = {}
    /\ scanLog = <<>>
    /\ steps = 0
    /\ inCall = NoCall

\* parseDtsFile(entryPath) of scanNodeModules and of the 'dts' pass
ScanDts(file) ==
    /\ steps < MaxSteps
    /\ last.op # "parseSourceFile"
    /\ dtsCache' = parseDtsFile(dtsCache, file)
    /\ last' = [op |-> "parseDtsFile", file |-> file]
    /\ steps' = steps + 1
    /\ UNCHANGED <<fs, cache, roots, scanLog, inCall>>

\* parseSourceFile(entryPath) of the 'source' pass
ScanSource(file) ==
    /\ steps < MaxSteps
    /\ dtsCache' = parseSourceFile(dtsCache, file)
    /\ last' = [op |-> "parseSourceFile", file |-> file]
    /\ steps' = steps + 1
    /\ UNCHANGED <<fs, cache, roots, scanLog, inCall>>

NextScan ==
    \/ \E file \in ScanDocuments : ScanDts(file)
    \/ \E file \in ScanSources : ScanSource(file)

SpecScan == InitScan /\ [][NextScan]_vars

\* The alias entries the step wrote: new keys and keys with a new entry.
Recorded ==
    {a \in DOMAIN dtsCache'.aliases :
        \/ a \notin DOMAIN dtsCache.aliases
        \/ dtsCache'.aliases[a] # dtsCache.aliases[a]}

\* C22: an alias recorded by a destructuring, assignment, export or global
\* typeof production has isModule true exactly when, at the moment it is
\* recorded, some registered path starts with originalPath + '.'.  The
\* registry only grows while one file is parsed, so isModule is true when
\* the registry before the file has such a path, and only when the registry
\* after the file has one.
C22_IsModuleIffSubMethods ==
    [][\A a \in Recorded :
           dtsCache'.aliases[a].source
                   \in QueriedSources \cup {"declare-global"}
               => /\ hasSubMethods(dtsCache.methods,
                                   dtsCache'.aliases[a].originalPath)
                         => dtsCache'.aliases[a].isModule
                  /\ dtsCache'.aliases[a].isModule
                         => hasSubMethods(dtsCache'.methods,
                                          dtsCache'.aliases[a].originalPath)
      ]_vars

ProperPrefix(p, q) == Len(p) < Len(q) /\ StartsWith(q, p)

\* C23: whatever declaration documents were parsed, no path of the registry
\* is a proper dotted prefix of another path of the registry: no path is
\* both a method entry and a sub-scope.
C23_NoMethodIsSubScope ==
    \A p, q \in DOMAIN dtsCache.methods : ~ProperPrefix(p, q)

\* The callables the namespace blocks of one document declare under a
\* runtime root, each at the path of the scopes that enclose it.
FileDeclares(file) ==
    UNION {IF file.blocks[i].kind = "namespace"
              /\ file.blocks[i].name \in RuntimeRoots
           THEN NamespaceDeclares(file.blocks[i].body,
                                  <<file.blocks[i].name>>)
           ELSE {} : i \in DOMAIN file.blocks}

NamespacesOnly(file) ==
    \A i \in DOMAIN file.blocks : file.blocks[i].kind = "namespace"

\* C24: a callable declared inside scopes s1 ... sk nested under a runtime
\* root R is registered under the path R.s1.....sk.name and under no other:
\* parsing a document of namespace blocks adds to the registry the paths of
\* the callables it declares, and no other path.
C24_RegisteredAtDeclaredPath ==
    [][(/\ last'.op = "parseDtsFile"
        /\ last'.file.readable
        /\ NamespacesOnly(last'.file))
          => DOMAIN dtsCache'.methods
                 = DOMAIN dtsCache.methods
                       \cup {d.path : d \in FileDeclares(last'.file)}]_vars

\* The methods reachable from the named types bound to a runtime root by
\* the global blocks of `project`, through the named types its documents
\* declare.
BoundTypeDeclares(project) ==
    UNION {IF b.kind = "global"
           THEN UNION {IF b.consts[i].varName \in RuntimeRoots
                       THEN TypeDeclares(NamedTypes(project),
                                         b.consts[i].typeName,
                                         <<b.consts[i].varName>>,
                                         MaxTypeDepth)
                       ELSE {} : i \in DOMAIN b.consts}
           ELSE {} : b \in BlocksOf(project)}

\* C25: for a global binding `const R: N` of a runtime root, once the
\* documents are scanned the registry has R.m1.....mk for every method
\* reachable from N through a chain of type references, whichever document
\* declares the referenced types and in whichever order the two documents
\* of a project are scanned.
C25_BoundTypeTreeRegistered ==
    [][(/\ steps = 1
        /\ last.op = "parseDtsFile"
        /\ last'.op = "parseDtsFile")
          => \A d \in BoundTypeDeclares(
                          Project(<<>>, <<last.file, last'.file>>, <<>>)) :
                 d.path \in DOMAIN dtsCache'.methods]_vars

-----------------------------------------------------------------------------
(* The resolution of a runtime-root binding, call by call.                  *)
(* inCall = [fn |-> "resolveTitanInterface", status, stack]: the frames of  *)
(* resolveTitanInterface (the first) and of resolveNestedInterface, each    *)
(* [basePath, members, todo] with todo the entries its for loop has not     *)
(* visited yet.  The engine's stack holds MaxCallDepth such frames; a call  *)
(* beyond that throws a RangeError, which no frame catches before the       *)
(* catch { } of parseDtsFile.                                               *)

MaxCallDepth == 8

\* interface Utils { log(msg: string): void; fs: FileSystem; }
\* interface FileSystem { readFile(p: string): Promise<string>; }
AcyclicTypes ==
    <<[name |-> "Utils",
       members |-> <<Method("log", <<"void">>),
                     Prop("fs", <<"FileSystem">>)>>],
      [name |-> "FileSystem",
       members |-> <<Method("readFile", PromiseOf("string"))>>]>>

\* interface Utils { log(msg: string): void; fs: Missing; }
DanglingTypes ==
    <<[name |-> "Utils",
       members |-> <<Method("log", <<"void">>),
                     Prop("fs", <<"Missing">>)>>]>>

\* interface Node { value(): string; next: Node; }
SelfReferringTypes ==
    <<[name |-> "Node",
       members |-> <<Method("value", <<"string">>),
                     Prop("next", <<"Node">>)>>]>>

\* interface Parent { name(): string; child: Child; }
\* interface Child { load(): Promise<string>; parent: Parent; }
MutuallyReferringTypes ==
    <<[name |-> "Parent",
       members |-> <<Method("name", <<"string">>),
                     Prop("child", <<"Child">>)>>],
      [name |-> "Child",
       members |-> <<Method("load", PromiseOf("string")),
                     Prop("parent", <<"Parent">>)>>]>>

\* interface Tree { leaf(): boolean; left: Tree; right: Tree; }
BranchingTypes ==
    <<[name |-> "Tree",
       members |-> <<Method("leaf", <<"boolean">>),
                     Prop("left", <<"Tree">>),
                     Prop("right", <<"Tree">>)>>]>>

TypeTables ==
    {AcyclicTypes, DanglingTypes, SelfReferringTypes, MutuallyReferringTypes,
     BranchingTypes}

Frame(basePath, members) ==
    [basePath |-> basePath, members |-> members, todo |-> DOMAIN members]

\* for (const { varName, typeName } of titanTypes)
\*     resolveTitanInterface(varName, dtsCache.interfaces.get(typeName))
EnterResolve(interfaces, varName, typeName) ==
    [fn |-> "resolveTitanInterface", status |-> "running",
     stack |-> <<Frame(<<varName>>, interfaces[typeName])>>]

InitResolve ==
    /\ fs = Disk(Project(<<>>, <<>>, <<>>))
    /\ cache = EmptyMap
    /\ last = [op |-> "none"]
    /\ roots = {}
    /\ scanLog = <<>>
    /\ steps = 0
    /\ \E decls \in TypeTables, varName \in RuntimeRoots :
           LET Entered(interfaces) ==
                   /\ dtsCache = [EmptyDtsCache
                                    EXCEPT !.projectRoot = Proj1,
                                           !.interfaces = interfaces]
                   /\ inCall = EnterResolve(interfaces, varName,
                                            <<decls[1].name>>)
           IN  Entered(GlobalInterfacePass(EmptyMap, decls))

Running == inCall.fn = "resolveTitanInterface" /\ inCall.status = "running"

Top == inCall.stack[Len(inCall.stack)]

\* The entry the for loop of the top frame visits next: a Map yields its
\* entries in insertion order, and parseInterfaceMethods inserts the method
\* signatures before the property references.
NextEntry ==
    IF \E n \in Top.todo : Top.members[n].isMethod
    THEN CHOOSE n \in Top.todo : Top.members[n].isMethod
    ELSE CHOOSE n \in Top.todo : TRUE

Visited(stack, n) ==
    [stack EXCEPT ![Len(stack)].todo = @ \ {n}]

IsReference(info) == info.isReference /\ info.referencedType # Null

\* A throw that leaves the call where it is.
NothingCaught(c) == c

\* The catch { } of parseDtsFile: the frames between the throw and it are
\* gone, and what was registered before the throw stays.
CatchInParseDtsFile(c) == [c EXCEPT !.stack = <<>>, !.status = "thrown"]

\* else if (info.isMethod) dtsCache.methods.set(fullPath, ...)
ResolveMethod ==
    /\ Running
    /\ Top.todo # {}
    /\ ~IsReference(Top.members[NextEntry])
    /\ dtsCache' = [dtsCache EXCEPT !.methods =
                       IF Top.members[NextEntry].isMethod
                       THEN InterfaceMethodSet(
                                dtsCache.methods,
                                Top.basePath \o <<NextEntry>>,
                                Top.members[NextEntry])
                       ELSE dtsCache.methods]
    /\ inCall' = [inCall EXCEPT !.stack = Visited(inCall.stack, NextEntry)]
    /\ UNCHANGED <<fs, cache, last, roots, scanLog, steps>>

\* if (info.isReference && info.referencedType)
\*     resolveNestedInterface(fullPath, info.referencedType)
\* with room on the stack for the call; a type that is not in the table
\* makes the call return at once.
ResolveReference ==
    /\ Running
    /\ Top.todo # {}
    /\ IsReference(Top.members[NextEntry])
    /\ Len(inCall.stack) < MaxCallDepth
    /\ inCall' =
           [inCall EXCEPT !.stack =
               IF MapHas(dtsCache.interfaces,
                         Top.members[NextEntry].referencedType)
               THEN Append(Visited(inCall.stack, NextEntry),
                           Frame(Top.basePath \o <<NextEntry>>,
                                 dtsCache.interfaces[
                                     Top.members[NextEntry].referencedType]))
               ELSE Visited(inCall.stack, NextEntry)]
    /\ UNCHANGED <<fs, dtsCache, cache, last, roots, scanLog, steps>>

\* The same call with no room left on the stack: RangeError.
ResolveOverflow ==
    /\ Running
    /\ Top.todo # {}
    /\ IsReference(Top.members[NextEntry])
    /\ Len(inCall.stack) >= MaxCallDepth
    /\ inCall' = CatchInParseDtsFile(inCall)
    /\ UNCHANGED <<fs, dtsCache, cache, last, roots, scanLog, steps>>

\* The for loop of the top frame is over: the call returns.
ResolveReturn ==
    /\ Running
    /\ Top.todo = {}
    /\ inCall' =
           [inCall EXCEPT
               !.stack = SubSeq(inCall.stack, 1, Len(inCall.stack) - 1),
               !.status = IF Len(inCall.stack) = 1 THEN "returned"
                          ELSE "running"]
    /\ UNCHANGED <<fs, dtsCache, cache, last, roots, scanLog, steps>>

NextResolve ==
    \/ ResolveMethod
    \/ ResolveReference
    \/ ResolveOverflow
    \/ ResolveReturn

\* The call runs to completion: nothing else runs in the thread.
SpecResolve ==
    InitResolve /\ [][NextResolve]_vars /\ WF_vars(NextResolve)

\* The most entries one named type of the tables has.
MaxMembers == 3

-----------------------------------------------------------------------------
(* findProjectRoot, iteration by iteration.                                 *)
(* A path is [abs, segs]: abs tells an absolute path from one relative to   *)
(* the working directory; [abs |-> TRUE, segs |-> <<>>] is '/', and         *)
(* [abs |-> FALSE, segs |-> <<>>] is '.'.                                   *)
(* inCall = [fn |-> "findProjectRoot", startPath, currentPath, status,      *)
(* result].                                                                 *)

MaxPathLen == 3

DirNames == {"a", "b"}

RECURSIVE SegsUpTo(_)
SegsUpTo(n) ==
    IF n = 0 THEN {<<>>}
    ELSE SegsUpTo(n - 1)
             \cup {Append(s, d) : s \in SegsUpTo(n - 1), d \in DirNames}

Paths == [abs : BOOLEAN, segs : SegsUpTo(MaxPathLen)]

\* path.dirname: dirname('/') is '/', dirname('a') and dirname('.') are '.'
PathDirname(p) ==
    IF p.segs = <<>> THEN p
    ELSE [p EXCEPT !.segs = SubSeq(p.segs, 1, Len(p.segs) - 1)]

\* const root = resolve('/')
FsRoot == [abs |-> TRUE, segs |-> <<>>]

\* The directories that hold a package.json, in the disks of the walk.
ManifestChoices ==
    {{},
     {FsRoot},
     {[abs |-> TRUE, segs |-> <<"a">>]},
     {[abs |-> TRUE, segs |-> <<"a">>], [abs |-> TRUE, segs |-> <<"a", "b">>]},
     {[abs |-> FALSE, segs |-> <<>>]},
     {[abs |-> FALSE, segs |-> <<"a">>]}}

InitFind ==
    /\ fs \in {[packageJson |-> m, projects |-> EmptyMap] :
                  m \in ManifestChoices}
    /\ dtsCache = EmptyDtsCache
    /\ cache = EmptyMap
    /\ last = [op |-> "none"]
    /\ roots = {}
    /\ scanLog = <<>>
    /\ steps = 0
    /\ inCall \in {[fn |-> "findProjectRoot", startPath |-> p,
                    currentPath |-> p, status |-> "running",
                    result |-> Null] : p \in Paths}

Finding == inCall.fn = "findProjectRoot" /\ inCall.status = "running"

OutsideCall == <<fs, dtsCache, cache, last, roots, scanLog, steps>>

\* if (existsSync(join(currentPath, 'package.json'))) return currentPath;
FindReturnsPath ==
    /\ Finding
    /\ inCall.currentPath # FsRoot
    /\ inCall.currentPath \in fs.packageJson
    /\ inCall' = [inCall EXCEPT !.status = "returned",
                                !.result = inCall.currentPath]
    /\ UNCHANGED OutsideCall

\* currentPath = dirname(currentPath);
FindAscends ==
    /\ Finding
    /\ inCall.currentPath # FsRoot
    /\ inCall.currentPath \notin fs.packageJson
    /\ inCall' = [inCall EXCEPT !.currentPath = PathDirname(@)]
    /\ UNCHANGED OutsideCall

\* while (currentPath !== root) is over: return null;
FindReturnsNull ==
    /\ Finding
    /\ inCall.currentPath = FsRoot
    /\ inCall' = [inCall EXCEPT !.status = "returned", !.result = Null]
    /\ UNCHANGED OutsideCall

NextFind ==
    \/ FindReturnsPath
    \/ FindAscends
    \/ FindReturnsNull

\* The call runs to completion: nothing else runs in the thread.
SpecFind == InitFind /\ [][NextFind]_vars /\ WF_vars(NextFind)

\* The directories from p upwards, p included.
Ancestors(p) ==
    {[p EXCEPT !.segs = SubSeq(p.segs, 1, n)] : n \in 0..Len(p.segs)}

\* The nearest of them that holds a package.json, or null.
NearestManifest(p) ==
    LET holding == Ancestors(p) \cap fs.packageJson
    IN  IF holding = {} THEN Null
        ELSE CHOOSE d \in holding :
                 \A e \in holding : Len(e.segs) <= Len(d.segs)

\* C27: findProjectRoot comes to an end for every starting path, absolute
\* or relative, and returns the nearest ancestor directory, the starting
\* directory included, that holds a package.json, or null when none does.
C27_FindProjectRootTerminates ==
    /\ <>(inCall.status = "returned")
    /\ [](inCall.status = "returned"
              => inCall.result = NearestManifest(inCall.startPath))

-----------------------------------------------------------------------------
(* scanDirectoryPass, entry by entry.                                       *)
(* An entry name is [dot, base, ext]: dot tells a name that starts with     *)
(* '.', ext is the suffix the pass looks at ("" for none).  fs.tree maps    *)
(* a directory to its listing: entry name -> what statSync finds there,     *)
(* [kind |-> "dir", dir], [kind |-> "file"] or [kind |-> "none"] when      *)
(* statSync throws; a symbolic link shows as what it points to.  A          *)
(* directory that cannot be read has no listing.                            *)
(* inCall = [fn |-> "scanDirectoryPass", pass, status, stack, parsed]: the  *)
(* frames are [dir, path, depth, todo], path the entry names from the       *)
(* project root down, and parsed the paths handed to parseDtsFile or        *)
(* parseSourceFile.                                                         *)

maxDepth == 10

Name(base, ext) == [dot |-> FALSE, base |-> base, ext |-> ext]

DotName(base, ext) == [dot |-> TRUE, base |-> base, ext |-> ext]

SKIP_DIRECTORIES ==
    {Name("node_modules", ""), DotName("git", ""), DotName("svn", ""),
     Name("dist", ""), Name("build", ""), Name("coverage", ""),
     DotName("next", ""), DotName("nuxt", ""), DotName("output", ""),
     Name("vendor", ""), Name("__pycache__", ""), DotName("cache", ""),
     DotName("titan", ""), Name("target", "")}

File == [kind |-> "file"]

Dir(dir) == [kind |-> "dir", dir |-> dir]

\* proj/            api.d.ts  app.js  util.ts  main.mjs  notes.md
\*                  .hidden.d.ts  gone -> (dangling link)
\*   src/           types.d.ts  index.js
\*   .git/          hook.js
\*   dist/          index.d.ts  index.js
\*   node_modules/  pkg.d.ts
\*   locked/        (not readable)
PlainTree ==
    [proj |-> (Name("api", ".d.ts") :> File) @@ (Name("app", ".js") :> File)
              @@ (Name("util", ".ts") :> File)
              @@ (Name("main", ".mjs") :> File)
              @@ (Name("notes", ".md") :> File)
              @@ (DotName("hidden", ".d.ts") :> File)
              @@ (Name("gone", "") :> [kind |-> "none"])
              @@ (Name("src", "") :> Dir("src"))
              @@ (DotName("git", "") :> Dir("git"))
              @@ (Name("dist", "") :> Dir("dist"))
              @@ (Name("node_modules", "") :> Dir("nm"))
              @@ (Name("locked", "") :> Dir("locked")),
     src |-> (Name("types", ".d.ts") :> File)
             @@ (Name("index", ".js") :> File),
     git |-> (Name("hook", ".js") :> File),
     dist |-> (Name("index", ".d.ts") :> File)
              @@ (Name("index", ".js") :> File),
     nm |-> (Name("pkg", ".d.ts") :> File)]

\* proj/   api.d.ts  app.js  self -> .   (a link to the directory itself)
LoopTree ==
    [proj |-> (Name("api", ".d.ts") :> File) @@ (Name("app", ".js") :> File)
              @@ (Name("self", "") :> Dir("proj"))]

\* proj/   sub/
\*   sub/  lib.d.ts  lib.js  up -> ..  .cache -> ..
TwoCycleTree ==
    [proj |-> (Name("sub", "") :> Dir("sub")),
     sub |-> (Name("lib", ".d.ts") :> File) @@ (Name("lib", ".js") :> File)
             @@ (Name("up", "") :> Dir("proj"))
             @@ (DotName("cache", "") :> Dir("proj"))]

Trees == {PlainTree, LoopTree, TwoCycleTree}

\* try { const entries = readdirSync(dirPath); ... } catch { }
Listing(tree, dir) ==
    IF dir \in DOMAIN tree THEN DOMAIN tree[dir] ELSE {}

DirFrame(tree, dir, path, depth) ==
    [dir |-> dir, path |-> path, depth |-> depth,
     todo |-> Listing(tree, dir)]

\* scanDirectoryPass(projectRoot, pass): depth = 0
InitPass ==
    /\ \E tree \in Trees, pass \in {"dts", "source"} :
           /\ fs = [packageJson |-> {Proj1}, projects |-> EmptyMap,
                    tree |-> tree]
           /\ inCall = [fn |-> "scanDirectoryPass", pass |-> pass,
                        status |-> "running",
                        stack |-> <<DirFrame(tree, "proj", <<>>, 0)>>,
                        parsed |-> {}]
    /\ dtsCache = EmptyDtsCache
    /\ cache = EmptyMap
    /\ last = [op |-> "none"]
    /\ roots = {}
    /\ scanLog = <<>>
    /\ steps = 0

Scanning == inCall.fn = "scanDirectoryPass" /\ inCall.status = "running"

\* for (const entry of entries): the order of a listing does not change
\* what is parsed.
ThisEntry == CHOOSE entry \in Top.todo : TRUE

Stat(entry) == fs.tree[Top.dir][entry]

\* Nothing stays in the listing whose entry was skipped because of its
\* name.
SkipsNothing(entry) == FALSE

\* if (entry.startsWith('.') || SKIP_DIRECTORIES.has(entry)) continue;
SkipsEntry(entry) == entry.dot \/ entry \in SKIP_DIRECTORIES

\* if (depth > maxDepth) return;
TooDeep(depth) == depth > maxDepth

\* pass === 'dts' && ext === '.ts' && entry.endsWith('.d.ts'), or
\* pass === 'source' && (ext === '.js' || (ext === '.ts' &&
\*     !entry.endsWith('.d.ts')) || ext === '.mjs')
Parses(pass, entry) ==
    IF pass = "dts" THEN entry.ext = ".d.ts"
    ELSE entry.ext \in {".js", ".ts", ".mjs"}

PassSkips ==
    /\ Scanning
    /\ Top.todo # {}
    /\ SkipsEntry(ThisEntry)
    /\ inCall' = [inCall EXCEPT !.stack = Visited(inCall.stack, ThisEntry)]
    /\ UNCHANGED OutsideCall

\* statSync(entryPath) throws: catch { continue; }
PassStatFails ==
    /\ Scanning
    /\ Top.todo # {}
    /\ ~SkipsEntry(ThisEntry)
    /\ Stat(ThisEntry).kind = "none"
    /\ inCall' = [inCall EXCEPT !.stack = Visited(inCall.stack, ThisEntry)]
    /\ UNCHANGED OutsideCall

\* if (stat.isDirectory()) scanDirectoryPass(entryPath, pass, depth + 1)
PassDescends ==
    /\ Scanning
    /\ Top.todo # {}
    /\ ~SkipsEntry(ThisEntry)
    /\ Stat(ThisEntry).kind = "dir"
    /\ inCall' =
           [inCall EXCEPT !.stack =
               IF TooDeep(Top.depth + 1)
               THEN Visited(inCall.stack, ThisEntry)
               ELSE Append(Visited(inCall.stack, ThisEntry),
                           DirFrame(fs.tree, Stat(ThisEntry).dir,
                                    Append(Top.path, ThisEntry),
                                    Top.depth + 1))]
    /\ UNCHANGED OutsideCall

\* else if (stat.isFile()) parseDtsFile(entryPath) / parseSourceFile(...)
PassParses ==
    /\ Scanning
    /\ Top.todo # {}
    /\ ~SkipsEntry(ThisEntry)
    /\ Stat(ThisEntry).kind = "file"
    /\ inCall' =
           [inCall EXCEPT
               !.stack = Visited(inCall.stack, ThisEntry),
               !.parsed = IF Parses(inCall.pass, ThisEntry)
                          THEN @ \cup {Append(Top.path, ThisEntry)}
                          ELSE @]
    /\ UNCHANGED OutsideCall

\* The for loop of the top frame is over: the call returns.
PassReturns ==
    /\ Scanning
    /\ Top.todo = {}
    /\ inCall' =
           [inCall EXCEPT
               !.stack = SubSeq(inCall.stack, 1, Len(inCall.stack) - 1),
               !.status = IF Len(inCall.stack) = 1 THEN "returned"
                          ELSE "running"]
    /\ UNCHANGED OutsideCall

NextPass ==
    \/ PassSkips
    \/ PassStatFails
    \/ PassDescends
    \/ PassParses
    \/ PassReturns

\* The call runs to completion: nothing else runs in the thread.
SpecPass == InitPass /\ [][NextPass]_vars /\ WF_vars(NextPass)

\* C28: every artifact a pass over the project tree parses lies at most 10
\* directory levels below the project root and has no path component that
\* starts with a dot or is in the skip list, and the pass comes to an end,
\* on a directory graph with a cycle as on a tree.
C28_PassBoundedAndFiltered ==
    /\ <>(inCall.status = "returned")
    /\ [](\A path \in inCall.parsed :
              /\ Len(path) - 1 <= maxDepth
              /\ \A i \in DOMAIN path :
                     ~path[i].dot /\ path[i] \notin SKIP_DIRECTORIES)

C28_ParsedAtTheDepthLimit ==
    /\ inCall.fn = "scanDirectoryPass"
    /\ inCall.status = "returned"
    /\ \E path \in inCall.parsed : Len(path) - 1 = maxDepth
    /\ \A path \in inCall.parsed : Len(path) - 1 <= maxDepth

-----------------------------------------------------------------------------
(* Properties of the alias table.                                          *)

\* The alias table holds `name` as a compound key 'obj.prop' and its head
\* 'obj' as a module alias.
CompoundAndModule(aliases, name) ==
    /\ Len(name) >= 2
    /\ name \in DOMAIN aliases
    /\ <<name[1]>> \in DOMAIN aliases
    /\ aliases[<<name[1]>>].isModule

\* C29: when the alias table holds both a compound key 'obj.prop' and a
\* module alias 'obj', isAlias, resolve and classify of 'obj.prop' use the
\* originalPath of the compound entry, found by looking the whole name up,
\* and not the module alias's originalPath + '.prop'.
C29_CompoundKeyFirst ==
    (/\ last.op \in Queries
     /\ CompoundAndModule(dtsCache.aliases, last.name))
        => LET entry == dtsCache.aliases[last.name]
           IN  CASE last.op = "isAlias" ->
                        /\ last.res.isAlias
                        /\ last.res.originalPath = entry.originalPath
                 [] last.op = "resolve" ->
                        /\ last.res.wasAlias
                        /\ last.res.resolvedPath = entry.originalPath
                 [] last.op = "classify" ->
                        last.res = detectAsyncMethod(
                                       dtsCache, EmptyMap, fs,
                                       entry.originalPath,
                                       last.context).res

C29_CompoundKeyClassified ==
    /\ last.op = "classify"
    /\ last.name = <<"db", "query">>
    /\ CompoundAndModule(dtsCache.aliases, last.name)
    /\ last.res.source = "dts-file"
    /\ ~last.res.isAsync

\* C30: in every reachable state each alias-table entry's originalPath
\* begins with 't.' or 'Titan.', so an alias is resolved in one hop:
\* whenever isAlias reports an alias its originalPath is rooted at a runtime
\* root, whenever resolve reports wasAlias its resolvedPath is, and
\* checkTitanCallee of a name that resolves through an alias answers
\* isTitan with that rooted path.
C30_AliasesAreRooted ==
    /\ \A a \in DOMAIN dtsCache.aliases :
           RootedName(dtsCache.aliases[a].originalPath)
    /\ (last.op = "isAlias" /\ last.res.isAlias)
           => RootedName(last.res.originalPath)
    /\ (last.op = "resolve" /\ last.res.wasAlias)
           => RootedName(last.res.resolvedPath)
    /\ (last.op \in Queries /\ ~RootedName(last.name))
           => LET r == resolveMethodPath(dtsCache, fs, last.name,
                                         last.context).res
                  c == checkTitanCallee(dtsCache, fs, last.name,
                                        last.context).res
              IN  r.wasAlias => /\ c.isTitan
                                /\ RootedName(c.resolvedPath)
                                /\ c.resolvedPath = r.resolvedPath

C30_ModuleAliasResolvedInOneHop ==
    /\ last.op = "resolve"
    /\ last.name = <<"db", "query">>
    /\ last.res.wasAlias
    /\ <<"db">> \in DOMAIN dtsCache.aliases
    /\ dtsCache.aliases[<<"db">>].isModule
    /\ checkTitanCallee(dtsCache, fs, last.name, last.context).res.isTitan

====
